---- MODULE Spec2Model ----
(***************************************************************************)
(* armv5te: the decoder generator (generator/src/generate/disasm.rs), the  *)
(* runtime decoder it emits (Ins::new, find, parse) and the text formatter *)
(* (disasm/src/display.rs).                                                *)
(*                                                                         *)
(* A u32 instruction word, bitmask or pattern is the set of its set bit    *)
(* positions: a & b is a \cap b, count_ones is Cardinality.  Strings are   *)
(* sequences of one-character strings, so that concatenation is \o.        *)
(***************************************************************************)
EXTENDS Naturals, Integers, Sequences, FiniteSets, TLC

VARIABLES isa, gen, ins, out, pc, fmt

vars == <<isa, gen, ins, out, pc, fmt>>

(***************************************************************************)
(* Bounds of the model.                                                    *)
(***************************************************************************)
\* width of the instruction word in the model (u32 in the program)
CodeBits == 2
\* largest number of opcodes in a catalogue
MaxOpcodes == 3

Bits == 0 .. (CodeBits - 1)
\* u32::MAX
AllBits == Bits
Codes == SUBSET Bits

\* Opcode::Illegal = u8::MAX
Illegal == 255

Unset == [unset |-> TRUE]

(***************************************************************************)
(* Small helpers over sequences.                                           *)
(***************************************************************************)
Range(s) == {s[i] : i \in DOMAIN s}

RECURSIVE Concat(_)
\* Iterator<String>::collect::<String>()
Concat(ss) == IF ss = <<>> THEN <<>> ELSE Head(ss) \o Concat(Tail(ss))

RECURSIVE Flatten(_)
Flatten(ss) == IF ss = <<>> THEN <<>> ELSE Head(ss) \o Flatten(Tail(ss))

\* the subsequence of s at the positions of the set idx, in order
RECURSIVE Pick(_, _, _)
Pick(s, idx, i) ==
    IF i > Len(s) THEN <<>>
    ELSE (IF i \in idx THEN <<s[i]>> ELSE <<>>) \o Pick(s, idx, i + 1)

(***************************************************************************)
(* An opcode descriptor matches a code when (code & bitmask) == pattern.   *)
(***************************************************************************)
Matches(code, bitmask, pattern) == (code \cap bitmask) = pattern

\* Opcode discriminant of the i-th catalogue opcode (1-based i): i - 1
TagOneBased(i) == i

Tag(i) == i - 1

(***************************************************************************)
(* search.rs: SearchTree.  None is the absent subtree (a linear leaf).     *)
(***************************************************************************)
None == [leaf |-> TRUE]

SearchTree(bitmask, left_pattern, left, right) ==
    [leaf |-> FALSE, bitmask |-> bitmask, left_pattern |-> left_pattern,
     left |-> left, right |-> right]

\* SearchTree::filter: the opcodes (as catalogue indices) that satisfy the
\* node's predicate, and the rest
FilterLeft(node, opcodes, ops) ==
    {i \in ops : (opcodes[i].pattern \cap node.bitmask) = node.left_pattern}

FilterRight(node, opcodes, ops) ==
    {i \in ops : (opcodes[i].pattern \cap node.bitmask) /= node.left_pattern}

\* the bits on which every remaining opcode is fixed
SharedBits(opcodes, ops, parent_bitmask) ==
    {b \in parent_bitmask : \A i \in ops : b \in opcodes[i].bitmask}

\* SearchTree::optimize: every tree the greedy builder may return.  A node
\* compares a single shared bit, and its predicate is satisfied by a strict
\* non-empty subset of the remaining opcodes; None when the set is not split
\* further.
RECURSIVE Optimize(_, _, _)
Optimize(opcodes, ops, parent_bitmask) ==
    {None} \cup
    UNION { UNION {
        LET node  == [bitmask |-> m, left_pattern |-> p]
            left  == FilterLeft(node, opcodes, ops)
            right == FilterRight(node, opcodes, ops)
        IN  IF left = {} \/ right = {} THEN {}
            ELSE { SearchTree(m, p, l, r) :
                     l \in Optimize(opcodes, left, parent_bitmask),
                     r \in Optimize(opcodes, right, parent_bitmask) }
        : p \in SUBSET m }
      : m \in {{b} : b \in SharedBits(opcodes, ops, parent_bitmask)} }

(***************************************************************************)
(* generate_search_node: the body of find.                                 *)
(***************************************************************************)
\* the key of sort_unstable_by_key: 32 - op.bitmask.count_ones()
SortKeyFlipped(op) == Cardinality(op.bitmask)

SortKey(op) == CodeBits - Cardinality(op.bitmask)

\* every order sort_unstable_by_key may leave the leaf's opcodes in: sorted by
\* the key, the order of equal keys unspecified
SortedOrders(opcodes, ops) ==
    LET n == Cardinality(ops)
    IN  { s \in [1 .. n -> ops] :
            /\ \A i, j \in 1 .. n : i /= j => s[i] /= s[j]
            /\ \A i, j \in 1 .. n :
                 i < j => SortKey(opcodes[s[i]]) <= SortKey(opcodes[s[j]]) }

\* one generated check: if (code & bitmask) == pattern { return Opcode::X; }
OpcodeCheckMaskAsPattern(opcodes, i) ==
    [bitmask |-> opcodes[i].bitmask, pattern |-> opcodes[i].bitmask,
     variant |-> Tag(i)]

OpcodeCheck(opcodes, i) ==
    [bitmask |-> opcodes[i].bitmask, pattern |-> opcodes[i].pattern,
     variant |-> Tag(i)]

RECURSIVE generate_search_node(_, _, _)
generate_search_node(node, opcodes, ops) ==
    IF ~node.leaf
    THEN { [leaf |-> FALSE, bitmask |-> node.bitmask, pattern |-> node.left_pattern,
            left |-> l, right |-> r] :
             l \in generate_search_node(node.left, opcodes,
                                        FilterLeft(node, opcodes, ops)),
             r \in generate_search_node(node.right, opcodes,
                                        FilterRight(node, opcodes, ops)) }
    ELSE { [leaf |-> TRUE,
            checks |-> [k \in 1 .. Cardinality(ops) |-> OpcodeCheck(opcodes, s[k])]] :
             s \in SortedOrders(opcodes, ops) }

\* a chain that tests its first check only
RunChecksFirstOnly(checks, code, k) ==
    IF k > Len(checks) THEN Illegal
    ELSE IF Matches(code, checks[k].bitmask, checks[k].pattern)
         THEN checks[k].variant
         ELSE Illegal

\* the if / else-if chain of a leaf: the first check that matches returns
RECURSIVE RunChecks(_, _, _)
RunChecks(checks, code, k) ==
    IF k > Len(checks) THEN Illegal
    ELSE IF Matches(code, checks[k].bitmask, checks[k].pattern)
         THEN checks[k].variant
         ELSE RunChecks(checks, code, k + 1)

\* the generated Opcode::find: the body, then the trailing Opcode::Illegal
RECURSIVE find(_, _)
find(body, code) ==
    IF body.leaf THEN RunChecks(body.checks, code, 1)
    ELSE IF Matches(code, body.bitmask, body.pattern)
         THEN find(body.left, code)
         ELSE find(body.right, code)

(***************************************************************************)
(* isa.rs: the catalogue.  Option<T> is NoneV or Some(x).                  *)
(***************************************************************************)
NoneV == [some |-> FALSE]

Some(x) == [some |-> TRUE, v |-> x]

\* Option::unwrap_or
UnwrapOr(o, d) == IF o.some THEN o.v ELSE d

\* Isa::get_field / Isa::get_modifier: the entry of that name
get_field(i, name) == CHOOSE f \in Range(i.fields) : f.name = name

get_modifier(i, name) == CHOOSE m \in Range(i.modifiers) : m.name = name

\* Opcode::name: the mnemonic of an opcode without modifier cases
OpcodeName(opcode) == opcode.base_name \o opcode.suffix

\* the two cases a boolean modifier stands for: predicate fails / holds
BoolCases(modifier) ==
    << [name |-> "", bitmask |-> modifier.bitmask, pattern |-> {},
        suffix |-> NoneV, args |-> NoneV],
       [name |-> modifier.name, bitmask |-> modifier.bitmask,
        pattern |-> modifier.pattern.v, suffix |-> modifier.suffix,
        args |-> NoneV] >>

\* Opcode::get_modifier_cases: per modifier of the opcode, its list of cases
get_modifier_cases(i, opcode) ==
    LET names == UnwrapOr(opcode.modifiers, <<>>)
    IN  [k \in DOMAIN names |->
           LET modifier == get_modifier(i, names[k])
           IN  IF modifier.pattern.some THEN BoolCases(modifier)
               ELSE UnwrapOr(modifier.cases, <<>>)]

\* iter.rs cartesian: every choice of one case per modifier, first modifier
\* varying slowest
RECURSIVE cartesian(_)
cartesian(lists) ==
    IF lists = <<>> THEN << <<>> >>
    ELSE LET rest == cartesian(Tail(lists))
             first == Head(lists)
         IN  Flatten([a \in DOMAIN first |->
                        [b \in DOMAIN rest |-> <<first[a]>> \o rest[b]]])

RECURSIVE SumSeq(_)
SumSeq(s) == IF s = <<>> THEN 0 ELSE Head(s) + SumSeq(Tail(s))

MaxOf(S) == IF S = {} THEN 0 ELSE CHOOSE x \in S : \A y \in S : y <= x

\* Isa::get_max_args: the ISA-wide maximum arity
get_max_args(i) ==
    MaxOf({ LET opcode == i.opcodes[o]
                lists  == get_modifier_cases(i, opcode)
            IN  Len(UnwrapOr(opcode.args, <<>>)) +
                SumSeq([k \in DOMAIN lists |->
                          MaxOf({Len(UnwrapOr(lists[k][c].args, <<>>)) :
                                   c \in DOMAIN lists[k]})])
            : o \in DOMAIN i.opcodes })

(***************************************************************************)
(* Runtime values.                                                         *)
(***************************************************************************)
ArgNone == [variant |-> "None"]

\* the literal "<illegal>"
IllegalMnemonic == <<"<", "i", "l", "l", "e", "g", "a", "l", ">">>

\* illegal_ins: ParsedIns { mnemonic: "<illegal>", args: [Argument::None; max_args] }
illegal_ins(max_args) ==
    [mnemonic |-> IllegalMnemonic, args |-> [k \in 1 .. max_args |-> ArgNone]]

(***************************************************************************)
(* generate_mnemonic_args: the args array literal of one ParsedIns.  An    *)
(* entry is the field whose accessor fills the slot, or ArgNone.           *)
(***************************************************************************)
generate_mnemonic_args_pad_front(max_args, args) ==
    [k \in 1 .. max_args |->
       IF k > max_args - Len(args) /\ k - (max_args - Len(args)) <= Len(args)
       THEN [variant |-> args[k - (max_args - Len(args))].arg,
             accessor |-> args[k - (max_args - Len(args))].name]
       ELSE ArgNone]

generate_mnemonic_args(max_args, args) ==
    [k \in 1 .. max_args |->
       IF k <= Len(args)
       THEN [variant |-> args[k].arg, accessor |-> args[k].name]
       ELSE ArgNone]

(***************************************************************************)
(* generate_parse_functions: one parse function per opcode.                *)
(***************************************************************************)
\* the guard of one case in a match arm: true / false for a boolean
\* modifier, EnumName::Variant for an enumerated one
case_value(case, modifier) ==
    IF modifier.pattern.some
    THEN (IF case.pattern /= {} THEN TRUE ELSE FALSE)
    ELSE [enum |-> modifier.name, variant |-> case.name]

\* cases.iter().map(|case| case.suffix.clone().unwrap_or("")).collect::<String>()
case_suffix(cases) == Concat([k \in DOMAIN cases |-> UnwrapOr(cases[k].suffix, <<>>)])

case_mnemonic_tail_first(opcode, cases) ==
    opcode.base_name \o opcode.suffix \o case_suffix(cases)

case_mnemonic(opcode, cases) ==
    opcode.base_name \o case_suffix(cases) \o opcode.suffix

\* opcode_args, then each case's args, in order
case_args_cases_first(i, opcode_args, cases) ==
    Flatten([k \in DOMAIN cases |->
               LET names == UnwrapOr(cases[k].args, <<>>)
               IN  [a \in DOMAIN names |-> get_field(i, names[a])]])
    \o opcode_args

case_args(i, opcode_args, cases) ==
    opcode_args \o
    Flatten([k \in DOMAIN cases |->
               LET names == UnwrapOr(cases[k].args, <<>>)
               IN  [a \in DOMAIN names |-> get_field(i, names[a])]])

generate_parse_function(i, max_args, opcode) ==
    LET names          == UnwrapOr(opcode.modifiers, <<>>)
        modifiers      == [k \in DOMAIN names |-> get_modifier(i, names[k])]
        argnames       == UnwrapOr(opcode.args, <<>>)
        opcode_args    == [k \in DOMAIN argnames |-> get_field(i, argnames[k])]
        modifier_cases == get_modifier_cases(i, opcode)
        combos         == cartesian(modifier_cases)
    IN  IF modifier_cases = <<>>
        THEN [plain |-> TRUE,
              mnemonic |-> OpcodeName(opcode),
              args |-> generate_mnemonic_args(max_args, opcode_args)]
        ELSE [plain |-> FALSE,
              modifier_values |-> names,
              case_bodies |->
                [c \in DOMAIN combos |->
                   [case_values |-> [k \in DOMAIN names |->
                                       case_value(combos[c][k], modifiers[k])],
                    mnemonic |-> case_mnemonic(opcode, combos[c]),
                    args |-> generate_mnemonic_args(
                               max_args, case_args(i, opcode_args, combos[c]))]]]

\* MNEMONIC_PARSERS: the parse functions in catalogue order
generate_parse_functions(i, max_args) ==
    [o \in DOMAIN i.opcodes |-> generate_parse_function(i, max_args, i.opcodes[o])]

(***************************************************************************)
(* generate_modifier_accessors: the accessor of one modifier, as generated *)
(***************************************************************************)
\* sort_by_key(|case| 32 - case.bitmask.unwrap_or(0).count_ones()): stable
CaseKey(case) == CodeBits - Cardinality(UnwrapOr(case.bitmask, {}))

\* the cases in the order they are declared
DeclaredOrder(cases) == cases

RECURSIVE StableSort(_)
StableSort(cases) ==
    IF cases = <<>> THEN <<>>
    ELSE LET m == CHOOSE k \in DOMAIN cases :
                    /\ \A j \in DOMAIN cases : CaseKey(cases[k]) <= CaseKey(cases[j])
                    /\ \A j \in 1 .. (k - 1) : CaseKey(cases[j]) > CaseKey(cases[k])
         IN  <<cases[m]>> \o StableSort(Pick(cases, DOMAIN cases \ {m}, 1))

IllegalVariant(modifier) == [enum |-> modifier.name, variant |-> "Illegal"]

RECURSIVE FirstCase(_, _, _, _)
\* the first case of the chain whose test holds, else Enum::Illegal
FirstCase(modifier, cases, code, global) ==
    IF cases = <<>> THEN IllegalVariant(modifier)
    ELSE LET case == Head(cases)
             hit  == IF global.some
                     THEN (code \cap global.v) = case.pattern
                     ELSE Matches(code, case.bitmask.v, case.pattern)
         IN  IF hit THEN [enum |-> modifier.name, variant |-> case.name]
             ELSE FirstCase(modifier, Tail(cases), code, global)

\* the value ins.modifier_<name>() returns
modifier_accessor(i, name, code) ==
    LET modifier == get_modifier(i, name)
    IN  IF modifier.pattern.some
        THEN Matches(code, modifier.bitmask.v, modifier.pattern.v)
        ELSE FirstCase(modifier, StableSort(modifier.cases.v), code, modifier.bitmask)

\* the value ins.field_<name>() returns: the field's bits of the code
field_accessor(i, name, code) == code \cap get_field(i, name).bits


(***************************************************************************)
(* The generated runtime: per-opcode parse functions and the public parse. *)
(***************************************************************************)
Panic == [panic |-> TRUE]

\* the args array literal evaluated on the instruction
eval_args(i, args, code) ==
    [k \in DOMAIN args |->
       IF args[k] = ArgNone THEN ArgNone
       ELSE [variant |-> args[k].variant,
             value |-> field_accessor(i, args[k].accessor, code)]]

\* fn parse_<op>(out, ins): a literal, or a match on the modifier values
\* with the default arm _ => illegal_ins
parse_fn_no_default(i, pf, max_args, code) ==
    IF pf.plain
    THEN [mnemonic |-> pf.mnemonic, args |-> eval_args(i, pf.args, code)]
    ELSE LET values == [k \in DOMAIN pf.modifier_values |->
                          modifier_accessor(i, pf.modifier_values[k], code)]
             hits   == {c \in DOMAIN pf.case_bodies :
                          pf.case_bodies[c].case_values = values}
         IN  IF hits = {} THEN Panic
             ELSE LET c == CHOOSE c \in hits : \A d \in hits : c <= d
                  IN  [mnemonic |-> pf.case_bodies[c].mnemonic,
                       args |-> eval_args(i, pf.case_bodies[c].args, code)]

parse_fn(i, pf, max_args, code) ==
    IF pf.plain
    THEN [mnemonic |-> pf.mnemonic, args |-> eval_args(i, pf.args, code)]
    ELSE LET values == [k \in DOMAIN pf.modifier_values |->
                          modifier_accessor(i, pf.modifier_values[k], code)]
             hits   == {c \in DOMAIN pf.case_bodies :
                          pf.case_bodies[c].case_values = values}
         IN  IF hits = {} THEN illegal_ins(max_args)
             ELSE LET c == CHOOSE c \in hits : \A d \in hits : c <= d
                  IN  [mnemonic |-> pf.case_bodies[c].mnemonic,
                       args |-> eval_args(i, pf.case_bodies[c].args, code)]

\* MNEMONIC_PARSERS[ins.op as usize](out, ins): an index past the table panics
call_parser(i, g, in) ==
    IF (in.op + 1) \in DOMAIN g.parsers
    THEN parse_fn(i, g.parsers[in.op + 1], g.max_args, in.code)
    ELSE Panic

\* pub fn parse(out, ins) without the test of Opcode::Illegal
parse_unchecked(i, g, in) == call_parser(i, g, in)

\* pub fn parse(out, ins)
parse(i, g, in) ==
    IF in.op /= Illegal THEN call_parser(i, g, in)
    ELSE illegal_ins(g.max_args)

(***************************************************************************)
(* Catalogues the model draws.                                             *)
(***************************************************************************)
RECURSIVE SeqOf(_)
SeqOf(S) == IF S = {} THEN <<>>
            ELSE LET x == CHOOSE x \in S : TRUE IN <<x>> \o SeqOf(S \ {x})

\* every (bitmask, pattern) signature: the pattern lies within the bitmask
Signatures ==
    SeqOf({ d \in [bitmask : SUBSET Bits, pattern : SUBSET Bits] :
              d.pattern \subseteq d.bitmask })

\* strictly increasing index sequences of length k over 1 .. n
RECURSIVE IncSeqs(_, _)
IncSeqs(n, k) ==
    IF k = 0 THEN {<<>>}
    ELSE { Append(s, j) : s \in IncSeqs(n, k - 1), j \in 1 .. n }
         \cap { s \in [1 .. k -> 1 .. n] : k = 1 \/ s[k - 1] < s[k] }

BareOpcode(sig) ==
    [bitmask |-> sig.bitmask, pattern |-> sig.pattern,
     base_name |-> <<"o">>, suffix |-> <<>>, args |-> NoneV, modifiers |-> NoneV]

\* catalogues of distinct bare opcodes (no arguments, no modifiers)
FindCatalogues ==
    { [opcodes |-> [k \in DOMAIN s |-> BareOpcode(Signatures[s[k]])],
       fields |-> <<>>, modifiers |-> <<>>] :
        s \in UNION { IncSeqs(Len(Signatures), k) : k \in 1 .. MaxOpcodes } }

(***************************************************************************)
(* The state machine: generate the decoder, then decode words with it.     *)
(***************************************************************************)
Init ==
    /\ isa \in FindCatalogues
    /\ gen = Unset
    /\ ins = Unset
    /\ out = Unset
    /\ pc = "catalogue"
    /\ fmt = Unset

\* generate_disasm: optimize(..).unwrap(), the body of find, the parse
\* functions and their table
GenerateDisasm ==
    /\ pc = "catalogue"
    /\ \E tree \in Optimize(isa.opcodes, DOMAIN isa.opcodes, AllBits) :
         IF tree = None
         THEN /\ gen' = Panic
              /\ pc' = "failed"
         ELSE \E body \in generate_search_node(tree, isa.opcodes, DOMAIN isa.opcodes) :
                /\ gen' = [tree |-> tree,
                           find |-> body,
                           max_args |-> get_max_args(isa),
                           parsers |-> generate_parse_functions(isa, get_max_args(isa)),
                           num_opcodes |-> Len(isa.opcodes)]
                /\ pc' = "generated"
    /\ UNCHANGED <<isa, ins, out, fmt>>

\* Ins::new(code): classify
InsNew ==
    /\ pc = "generated"
    /\ \E code \in Codes :
         ins' = [code |-> code, op |-> find(gen.find, code)]
    /\ out' = Unset
    /\ pc' = "new"
    /\ UNCHANGED <<isa, gen, fmt>>

\* Ins::parse(self): ParsedIns::default(), then parse(&mut out, self)
InsParse ==
    /\ pc = "new"
    /\ out' = parse(isa, gen, ins)
    /\ pc' = "parsed"
    /\ UNCHANGED <<isa, gen, ins, fmt>>

Next == GenerateDisasm \/ InsNew \/ InsParse

Spec == Init /\ [][Next]_vars


(***************************************************************************)
(* Catalogues with fields and modifiers, for the parse functions.          *)
(***************************************************************************)
\* largest number of positional fields an opcode of a drawn catalogue declares
MaxOpArgs == 2
\* largest number of modifiers an opcode of a drawn catalogue names
MaxMods == 2

PoolFields ==
    << [name |-> "Rd",  arg |-> "Reg",       bits |-> {0}],
       [name |-> "imm", arg |-> "UImm",      bits |-> {1}],
       [name |-> "off", arg |-> "OffsetImm", bits |-> {0, 1}] >>

PoolModifiers ==
    << \* boolean modifier: bitmask + pattern
       [name |-> "s", bitmask |-> Some({0}), pattern |-> Some({0}),
        cases |-> NoneV, suffix |-> Some(<<"s">>)],
       \* enumerated modifier with a global bitmask
       [name |-> "cond", bitmask |-> Some({1}), pattern |-> NoneV,
        suffix |-> NoneV,
        cases |-> Some(<<
          [name |-> "Al", bitmask |-> NoneV, pattern |-> {},
           suffix |-> NoneV, args |-> NoneV],
          [name |-> "Eq", bitmask |-> NoneV, pattern |-> {1},
           suffix |-> Some(<<"e">>), args |-> Some(<<"Rd">>)] >>)],
       \* enumerated modifier whose cases carry their own bitmasks
       [name |-> "mode", bitmask |-> NoneV, pattern |-> NoneV,
        suffix |-> NoneV,
        cases |-> Some(<<
          [name |-> "Pre", bitmask |-> Some({0}), pattern |-> {0},
           suffix |-> NoneV, args |-> Some(<<"imm">>)],
          [name |-> "PreW", bitmask |-> Some({0, 1}), pattern |-> {0, 1},
           suffix |-> Some(<<"w">>), args |-> Some(<<"off">>)] >>)] >>

\* Option<Vec<name>>: absent, or a list of at most n names
NameLists(names, n) ==
    {NoneV} \cup {Some(l) : l \in UNION {[1 .. k -> names] : k \in 0 .. n}}

\* the opcode under study: one bit of signature, any declared fields and
\* modifiers
StudyOpcodes ==
    { [bitmask |-> {1}, pattern |-> p, base_name |-> <<"b">>, suffix |-> t,
       args |-> a, modifiers |-> m] :
        p \in {{}, {1}}, t \in {<<>>, <<"t">>},
        a \in NameLists({f.name : f \in Range(PoolFields)}, MaxOpArgs),
        m \in NameLists({m.name : m \in Range(PoolModifiers)}, MaxMods) }

\* its companion: a bare opcode on the other side of the signature bit that
\* leaves one word in four unallocated
Companion(op) ==
    BareOpcode([bitmask |-> {0, 1}, pattern |-> {1} \ op.pattern])

ParseCatalogues ==
    { [opcodes |-> o, fields |-> PoolFields, modifiers |-> PoolModifiers] :
        o \in { <<Companion(op), op>> : op \in StudyOpcodes } }

InitParse ==
    /\ isa \in ParseCatalogues
    /\ gen = Unset
    /\ ins = Unset
    /\ out = Unset
    /\ pc = "catalogue"
    /\ fmt = Unset

SpecParse == InitParse /\ [][Next]_vars


(***************************************************************************)
(* The text formatter: ParsedInsDisplay::fmt.  The text is kept as the     *)
(* sequence of pieces written so far, each a sequence of characters.       *)
(***************************************************************************)
\* number of argument slots of the ParsedIns values given to the formatter
FmtArgs == 3

DefaultRegNames ==
    [av_registers |-> FALSE, r9_use |-> "GeneralPurpose",
     explicit_stack_limit |-> FALSE, frame_pointer |-> FALSE, ip |-> FALSE]

HexDigits ==
    <<"0", "1", "2", "3", "4", "5", "6", "7",
      "8", "9", "a", "b", "c", "d", "e", "f">>

\* {:x}
RECURSIVE LowerHex(_)
LowerHex(n) ==
    IF n < Len(HexDigits) THEN <<HexDigits[n + 1]>>
    ELSE LowerHex(n \div Len(HexDigits)) \o <<HexDigits[(n % Len(HexDigits)) + 1]>>

Abs(x) == IF x < 0 THEN -x ELSE x

\* {} of an unsigned integer
RECURSIVE Decimal(_)
Decimal(n) ==
    IF n < 10 THEN <<HexDigits[n + 1]>>
    ELSE Decimal(n \div 10) \o <<HexDigits[(n % 10) + 1]>>

\* the width of the signed integers of the model (i32 in the source)
IntBits == 8

IntMin == -(2 ^ (IntBits - 1))
IntMax == (2 ^ (IntBits - 1)) - 1

\* i32::abs: the magnitude of the minimum does not fit; with overflow checks
\* (debug builds) the call panics, without them it returns the minimum
IntAbsPanics(x, overflow_checks) == x = IntMin /\ overflow_checks

IntAbs(x) == IF x = IntMin THEN IntMin ELSE Abs(x)

\* {:x} of a signed integer: its two's complement bits
SignedLowerHex(x) == LowerHex(IF x < 0 THEN x + 2 ^ IntBits ELSE x)

\* the variants of the primitive enums, in discriminant order from 0;
\* Illegal has the discriminant u8::MAX
Registers == <<"R0", "R1", "R2", "R3", "R4", "R5", "R6", "R7", "R8", "R9", "R10", "R11", "R12", "Sp", "Lr", "Pc">>
CoRegs == <<"C0", "C1", "C2", "C3", "C4", "C5", "C6", "C7", "C8", "C9", "C10", "C11", "C12", "C13", "C14", "C15">>
StatusRegs == <<"Cpsr", "Spsr">>
Shifts == <<"Lsl", "Lsr", "Asr", "Ror", "Rrx">>

\* i32::abs panics
SignedHexPanics(x, overflow_checks) == IntAbsPanics(x, overflow_checks)

\* impl Display for SignedHex
SignedHex(x, overflow_checks) ==
    IF SignedHexPanics(x, overflow_checks) THEN Panic
    ELSE <<"#">> \o (IF x < 0 THEN <<"-">> ELSE <<>>) \o <<"0", "x">>
         \o SignedLowerHex(IntAbs(x))

\* the arm Register::R9 => match self.1.r9_use { .. }
R9DisplayAvFirst(names) ==
    IF names.av_registers THEN <<"v", "6">>
    ELSE CASE names.r9_use = "GeneralPurpose" -> <<"r", "9">>
           [] names.r9_use = "Pid" -> <<"s", "b">>
           [] names.r9_use = "Tls" -> <<"t", "r">>

R9Display(names) ==
    CASE names.r9_use = "GeneralPurpose" ->
           IF names.av_registers THEN <<"v", "6">> ELSE <<"r", "9">>
      [] names.r9_use = "Pid" -> <<"s", "b">>
      [] names.r9_use = "Tls" -> <<"t", "r">>

\* Register::Illegal => todo!()
RegPanics(reg) == reg = "Illegal"

\* impl Display for RegDisplay; Register::Illegal => todo!() panics
RegDisplay(reg, names) ==
    CASE reg = "Illegal" -> Panic
      [] reg = "R0" -> IF names.av_registers THEN <<"a", "1">> ELSE <<"r", "0">>
      [] reg = "R1" -> IF names.av_registers THEN <<"a", "2">> ELSE <<"r", "1">>
      [] reg = "R2" -> IF names.av_registers THEN <<"a", "3">> ELSE <<"r", "2">>
      [] reg = "R3" -> IF names.av_registers THEN <<"a", "4">> ELSE <<"r", "3">>
      [] reg = "R4" -> IF names.av_registers THEN <<"v", "1">> ELSE <<"r", "4">>
      [] reg = "R5" -> IF names.av_registers THEN <<"v", "2">> ELSE <<"r", "5">>
      [] reg = "R6" -> IF names.av_registers THEN <<"v", "3">> ELSE <<"r", "6">>
      [] reg = "R7" -> IF names.av_registers THEN <<"v", "4">> ELSE <<"r", "7">>
      [] reg = "R8" -> IF names.av_registers THEN <<"v", "5">> ELSE <<"r", "8">>
      [] reg = "R9" -> R9Display(names)
      [] reg = "R10" -> IF names.explicit_stack_limit THEN <<"s", "l">>
                        ELSE IF names.av_registers THEN <<"v", "7">>
                        ELSE <<"r", "1", "0">>
      [] reg = "R11" -> IF names.frame_pointer THEN <<"f", "p">>
                        ELSE IF names.av_registers THEN <<"v", "8">>
                        ELSE <<"r", "1", "1">>
      [] reg = "R12" -> IF names.ip THEN <<"i", "p">> ELSE <<"r", "1", "2">>
      [] reg = "Sp" -> <<"s", "p">>
      [] reg = "Lr" -> <<"l", "r">>
      [] reg = "Pc" -> <<"p", "c">>

\* impl Display for CoReg
CoRegDisplay(x) ==
    IF x = "Illegal" THEN IllegalMnemonic
    ELSE <<"c">> \o Decimal(CHOOSE k \in 0 .. 15 : CoRegs[k + 1] = x)

\* impl Display for StatusReg
StatusRegDisplay(x) ==
    CASE x = "Illegal" -> IllegalMnemonic
      [] x = "Cpsr" -> <<"c", "p", "s", "r">>
      [] x = "Spsr" -> <<"s", "p", "s", "r">>

StatusMaskDisplayUnderscoreEach(x) ==
    StatusRegDisplay(x.reg)
    \o (IF x.flags THEN <<"_", "f">> ELSE <<>>)
    \o (IF x.status THEN <<"_", "s">> ELSE <<>>)
    \o (IF x.extension THEN <<"_", "x">> ELSE <<>>)
    \o (IF x.control THEN <<"_", "c">> ELSE <<>>)

\* impl Display for StatusMask
StatusMaskDisplay(x) ==
    StatusRegDisplay(x.reg)
    \o (IF x.flags \/ x.status \/ x.extension \/ x.control THEN <<"_">> ELSE <<>>)
    \o (IF x.flags THEN <<"f">> ELSE <<>>)
    \o (IF x.status THEN <<"s">> ELSE <<>>)
    \o (IF x.extension THEN <<"x">> ELSE <<>>)
    \o (IF x.control THEN <<"c">> ELSE <<>>)

\* impl Display for Shift
ShiftDisplay(x) ==
    CASE x = "Illegal" -> IllegalMnemonic
      [] x = "Lsl" -> <<"l", "s", "l">>
      [] x = "Lsr" -> <<"l", "s", "r">>
      [] x = "Asr" -> <<"a", "s", "r">>
      [] x = "Ror" -> <<"r", "o", "r">>
      [] x = "Rrx" -> <<"r", "r", "x">>

\* impl Display for ShiftImm
ShiftImmDisplay(x) ==
    ShiftDisplay(x.op) \o <<" ", "#", "0", "x">> \o LowerHex(x.imm)

\* impl Display for DisplayShiftReg
DisplayShiftReg(x, names) ==
    IF RegPanics(x.reg) THEN Panic
    ELSE ShiftDisplay(x.op) \o <<" ">> \o RegDisplay(x.reg, names)

\* impl Display for DisplayOffsetReg
DisplayOffsetReg(x, names) ==
    IF RegPanics(x.reg) THEN Panic
    ELSE (IF ~x.add THEN <<"-">> ELSE <<>>) \o RegDisplay(x.reg, names)

\* impl Display for CpsrMode
CpsrModeDisplay(x) ==
    <<"#", "0", "x">> \o LowerHex(x.mode)
    \o (IF x.writeback THEN <<"!">> ELSE <<>>)

\* impl Display for CpsrFlags
CpsrFlagsDisplay(x) ==
    (IF x.a THEN <<"a">> ELSE <<>>)
    \o (IF x.i THEN <<"i">> ELSE <<>>)
    \o (IF x.f THEN <<"f">> ELSE <<>>)
    \o (IF ~x.a /\ ~x.i /\ ~x.f THEN <<"n", "o", "n", "e">> ELSE <<>>)

\* impl Display for Endian
EndianDisplay(x) ==
    CASE x = "Illegal" -> IllegalMnemonic
      [] x = "Le" -> <<"l", "e">>
      [] x = "Be" -> <<"b", "e">>

\* Register::parse, CoReg::parse, StatusReg::parse, Shift::parse: the
\* variant of discriminant value when value <= the last discriminant
EnumParseTruncating(variants, value) ==
    IF (value % 256) <= Len(variants) - 1 THEN variants[(value % 256) + 1]
    ELSE "Illegal"

EnumParse(variants, value) ==
    IF value <= Len(variants) - 1 THEN variants[value + 1]
    ELSE "Illegal"

\* the loop of Argument::RegList: for i in 0..16, the registers whose bit
\* is set, with ", " before every one but the first
RECURSIVE RegListFromHighest(_, _, _, _)
RegListFromHighest(regs, i, first, names) ==
    IF i < 0 THEN <<>>
    ELSE IF i \in regs
    THEN (IF first THEN <<>> ELSE <<",", " ">>)
         \o RegDisplay(EnumParse(Registers, i), names)
         \o RegListFromHighest(regs, i - 1, FALSE, names)
    ELSE RegListFromHighest(regs, i - 1, first, names)

RECURSIVE RegListLoop(_, _, _, _)
RegListLoop(regs, i, first, names) ==
    IF i >= 16 THEN <<>>
    ELSE IF i \in regs
    THEN (IF first THEN <<>> ELSE <<",", " ">>)
         \o RegDisplay(EnumParse(Registers, i), names)
         \o RegListLoop(regs, i + 1, FALSE, names)
    ELSE RegListLoop(regs, i + 1, first, names)

RegListDisplayDescending(list, names) ==
    <<"{">> \o RegListFromHighest(list.regs, 15, TRUE, names) \o <<"}">>
    \o (IF list.user_mode THEN <<"^">> ELSE <<>>)

RegListDisplay(list, names) ==
    <<"{">> \o RegListLoop(list.regs, 0, TRUE, names) \o <<"}">>
    \o (IF list.user_mode THEN <<"^">> ELSE <<>>)

\* the rendering of the argument panics: Register::Illegal in a Reg, a
\* ShiftReg or an OffsetReg, or the overflow of abs in SignedHex
DisplayArgumentPanics(arg, overflow_checks) ==
    CASE arg.variant \in {"Reg", "ShiftReg", "OffsetReg"} -> RegPanics(arg.reg)
      [] arg.variant \in {"SImm", "OffsetImm", "BranchDest"} ->
           SignedHexPanics(arg.value, overflow_checks)
      [] OTHER -> FALSE

\* impl Display for DisplayArgument
DisplayArgument(arg, options, overflow_checks) ==
    CASE arg.variant = "None" -> <<>>
      [] arg.variant = "Reg" ->
           IF RegPanics(arg.reg) THEN Panic
           ELSE RegDisplay(arg.reg, options.reg_names)
                \o (IF arg.writeback THEN <<"!">> ELSE <<>>)
      [] arg.variant = "RegList" -> RegListDisplay(arg, options.reg_names)
      [] arg.variant = "CoReg" -> CoRegDisplay(arg.value)
      [] arg.variant = "StatusReg" -> StatusRegDisplay(arg.value)
      [] arg.variant = "UImm" -> <<"#", "0", "x">> \o LowerHex(arg.value)
      [] arg.variant = "SImm" -> SignedHex(arg.value, overflow_checks)
      [] arg.variant = "OffsetImm" -> SignedHex(arg.value, overflow_checks)
      [] arg.variant = "CoOption" ->
           <<"{", "0", "x">> \o LowerHex(arg.value) \o <<"}">>
      [] arg.variant = "CoOpcode" -> <<"#">> \o Decimal(arg.value)
      [] arg.variant = "CoprocNum" -> <<"p">> \o Decimal(arg.value)
      [] arg.variant = "ShiftImm" -> ShiftImmDisplay(arg)
      [] arg.variant = "ShiftReg" -> DisplayShiftReg(arg, options.reg_names)
      [] arg.variant = "OffsetReg" -> DisplayOffsetReg(arg, options.reg_names)
      [] arg.variant = "BranchDest" -> SignedHex(arg.value, overflow_checks)
      [] arg.variant = "StatusMask" -> StatusMaskDisplay(arg)
      [] arg.variant = "Shift" -> ShiftDisplay(arg.value)
      [] arg.variant = "SatImm" -> <<"#", "0", "x">> \o LowerHex(arg.value)
      [] arg.variant = "CpsrMode" -> CpsrModeDisplay(arg)
      [] arg.variant = "CpsrFlags" -> CpsrFlagsDisplay(arg)
      [] arg.variant = "Endian" -> EndianDisplay(arg.value)

\* ParsedIns::args_iter: the arguments up to the first None
RECURSIVE args_iter(_)
args_iter(args) ==
    IF args = <<>> \/ Head(args) = ArgNone THEN <<>>
    ELSE <<Head(args)>> \o args_iter(Tail(args))

\* the arms OffsetImm { post_indexed: true, .. } | OffsetReg { post_indexed:
\* true, .. } | CoOption(_) of the match under `if deref`
ClosesDerefAnyOffset(arg) ==
    arg.variant \in {"OffsetImm", "OffsetReg", "CoOption"}

ClosesDeref(arg) ==
    \/ arg.variant = "OffsetImm" /\ arg.post_indexed
    \/ arg.variant = "OffsetReg" /\ arg.post_indexed
    \/ arg.variant = "CoOption"

\* the pattern Argument::Reg(Reg { deref: true, reg, writeback: wb })
IsDerefReg(arg) == arg.variant = "Reg" /\ arg.deref

\* the arguments the formatter is given
ArgPool ==
    {ArgNone}
    \cup { [variant |-> "Reg", reg |-> "R0", deref |-> d, writeback |-> w] :
             d \in BOOLEAN, w \in BOOLEAN }
    \cup { [variant |-> "Reg", reg |-> "Illegal", deref |-> FALSE,
            writeback |-> FALSE] }
    \cup { [variant |-> "OffsetImm", post_indexed |-> p, value |-> 4] :
             p \in BOOLEAN }
    \cup { [variant |-> "OffsetImm", post_indexed |-> TRUE, value |-> -4] }
    \cup { [variant |-> "OffsetReg", add |-> TRUE, post_indexed |-> p,
            reg |-> "R1"] : p \in BOOLEAN }
    \cup { [variant |-> "OffsetReg", add |-> FALSE, post_indexed |-> TRUE,
            reg |-> "R1"] }
    \cup { [variant |-> "CoOption", value |-> 105] }
    \cup { [variant |-> "UImm", value |-> 26] }

InitFmt ==
    /\ isa = Unset
    /\ gen = Unset
    /\ ins = Unset
    /\ out \in { [mnemonic |-> <<"l", "d", "r">>, args |-> a] :
                   a \in [1 .. FmtArgs -> ArgPool] }
    /\ pc = "display"
    /\ fmt = Unset

\* write!(f, ..): append one piece; at records the loop iteration writing it
\* (0 before the loop, Len(args_iter) + 1 after it)
Write(f, piece, at) ==
    [f EXCEPT !.text = Append(@, piece), !.at = Append(@, at)]

\* self.ins.args[0] != Argument::None
LeadingSpaceIfAnyArg(args) == \E k \in DOMAIN args : args[k] /= ArgNone

LeadingSpace(args) == args[1] /= ArgNone

\* writeback = *wb
PendingWritebackAlways(arg) == TRUE

PendingWriteback(arg) == arg.writeback

\* the mnemonic, the space, and the three flags; the build's overflow checks
\* are on (debug) or off (release)
FmtStart ==
    /\ pc = "display"
    /\ \E overflow_checks \in BOOLEAN :
         LET f0 == [options |-> [reg_names |-> DefaultRegNames],
                    overflow_checks |-> overflow_checks,
                    text |-> <<out.mnemonic>>, at |-> <<0>>, i |-> 1,
                    comma |-> FALSE, deref |-> FALSE, writeback |-> FALSE]
         IN  fmt' = IF LeadingSpace(out.args) THEN Write(f0, <<" ">>, 0) ELSE f0
    /\ pc' = "loop"
    /\ UNCHANGED <<isa, gen, ins, out>>

\* one iteration of for arg in self.ins.args_iter()
FmtArg ==
    /\ pc = "loop"
    /\ fmt.i <= Len(args_iter(out.args))
    /\ LET arg == args_iter(out.args)[fmt.i]
           closing == fmt.deref /\ ClosesDeref(arg)
           f1 == IF closing
                 THEN [Write(fmt, <<"]">>, fmt.i) EXCEPT !.deref = FALSE]
                 ELSE fmt
           f2 == IF closing /\ fmt.writeback
                 THEN [Write(f1, <<"!">>, fmt.i) EXCEPT !.writeback = FALSE]
                 ELSE f1
           f3 == IF fmt.comma THEN Write(f2, <<",", " ">>, fmt.i) ELSE f2
           shown == IF IsDerefReg(arg)
                    THEN RegDisplay(arg.reg, fmt.options.reg_names)
                    ELSE DisplayArgument(arg, fmt.options, fmt.overflow_checks)
           f4 == IF IsDerefReg(arg)
                 THEN [Write(f3, <<"[">> \o shown, fmt.i)
                         EXCEPT !.deref = TRUE, !.writeback = PendingWriteback(arg)]
                 ELSE Write(f3, shown, fmt.i)
           panics == IF IsDerefReg(arg) THEN RegPanics(arg.reg)
                     ELSE DisplayArgumentPanics(arg, fmt.overflow_checks)
       IN  IF panics
           THEN /\ fmt' = Panic
                /\ pc' = "panicked"
           ELSE /\ fmt' = [f4 EXCEPT !.comma = TRUE, !.i = @ + 1]
                /\ pc' = "loop"
    /\ UNCHANGED <<isa, gen, ins, out>>

\* after the loop: if deref { "]"; if writeback { "!" } }
FmtEnd ==
    /\ pc = "loop"
    /\ fmt.i > Len(args_iter(out.args))
    /\ LET f1 == IF fmt.deref THEN Write(fmt, <<"]">>, fmt.i) ELSE fmt
           f2 == IF fmt.deref /\ fmt.writeback
                 THEN Write(f1, <<"!">>, fmt.i) ELSE f1
       IN  fmt' = f2
    /\ pc' = "displayed"
    /\ UNCHANGED <<isa, gen, ins, out>>

NextFmt == FmtStart \/ FmtArg \/ FmtEnd

SpecFmt == InitFmt /\ [][NextFmt]_vars


(***************************************************************************)
(* One argument: a primitive enum parsed from a field value, and the       *)
(* rendering of an argument by DisplayArgument.                            *)
(***************************************************************************)
\* width of the field values given to the parse functions of the enums
FieldBits == 9
\* largest number of registers set in a drawn register list
MaxListRegs == 3

AllRegNames ==
    [av_registers : BOOLEAN, r9_use : {"GeneralPurpose", "Pid", "Tls"},
     explicit_stack_limit : BOOLEAN, frame_pointer : BOOLEAN, ip : BOOLEAN]

AvRegNames == [DefaultRegNames EXCEPT !.av_registers = TRUE]

PrimitiveEnums ==
    [Register |-> Registers, CoReg |-> CoRegs, StatusReg |-> StatusRegs,
     Shift |-> Shifts]

\* the field of a primitive enum, as the accessor extracts it
FieldDraws ==
    [enum : DOMAIN PrimitiveEnums, value : 0 .. (2 ^ FieldBits - 1)]

\* the argument the field accessor builds from the parsed enum
EnumArgument(enum, x) ==
    IF enum = "Register"
    THEN [variant |-> "Reg", reg |-> x, deref |-> FALSE, writeback |-> FALSE]
    ELSE [variant |-> enum, value |-> x]

RegArguments ==
    { [variant |-> "Reg", reg |-> r, deref |-> FALSE, writeback |-> w] :
        r \in Range(Registers) \cup {"Illegal"}, w \in BOOLEAN }

RegListArguments ==
    { [variant |-> "RegList", regs |-> rs, user_mode |-> u] :
        rs \in {x \in SUBSET (0 .. 16) : Cardinality(x) <= MaxListRegs},
        u \in BOOLEAN }

SignedArguments ==
    { [variant |-> v, value |-> x] :
        v \in {"SImm", "BranchDest"}, x \in IntMin .. IntMax }
    \cup { [variant |-> "OffsetImm", post_indexed |-> FALSE, value |-> x] :
             x \in IntMin .. IntMax }

OtherArguments ==
    { [variant |-> "StatusMask", reg |-> r, flags |-> f, status |-> st,
       extension |-> x, control |-> c] :
        r \in Range(StatusRegs) \cup {"Illegal"},
        f \in BOOLEAN, st \in BOOLEAN, x \in BOOLEAN, c \in BOOLEAN }
    \cup { [variant |-> "CoReg", value |-> x] :
             x \in Range(CoRegs) \cup {"Illegal"} }
    \cup { [variant |-> "StatusReg", value |-> x] :
             x \in Range(StatusRegs) \cup {"Illegal"} }
    \cup { [variant |-> "Shift", value |-> x] :
             x \in Range(Shifts) \cup {"Illegal"} }
    \cup { [variant |-> "Endian", value |-> x] : x \in {"Le", "Be", "Illegal"} }
    \cup { [variant |-> "ShiftImm", op |-> x, imm |-> 31] :
             x \in Range(Shifts) \cup {"Illegal"} }
    \cup { [variant |-> "ShiftReg", op |-> x, reg |-> r] :
             x \in Range(Shifts) \cup {"Illegal"}, r \in {"R3", "Illegal"} }
    \cup { [variant |-> "OffsetReg", add |-> a, post_indexed |-> FALSE,
            reg |-> r] : a \in BOOLEAN, r \in {"R1", "Illegal"} }
    \cup { [variant |-> v, value |-> 26] :
             v \in {"UImm", "SatImm", "CoOption", "CoOpcode", "CoprocNum"} }
    \cup { [variant |-> "CpsrMode", mode |-> 19, writeback |-> w] :
             w \in BOOLEAN }
    \cup { [variant |-> "CpsrFlags", a |-> a, i |-> i, f |-> f] :
             a \in BOOLEAN, i \in BOOLEAN, f \in BOOLEAN }

\* an argument together with the register names it is displayed with
ArgumentDraws ==
    (RegArguments \X AllRegNames)
    \cup (RegListArguments \X {DefaultRegNames, AvRegNames})
    \cup ((SignedArguments \cup OtherArguments) \X {DefaultRegNames})

InitArg ==
    /\ isa = Unset
    /\ gen = Unset
    /\ \E overflow_checks \in BOOLEAN :
         \/ /\ ins \in FieldDraws
            /\ out = Unset
            /\ fmt = [options |-> [reg_names |-> DefaultRegNames],
                      overflow_checks |-> overflow_checks]
            /\ pc = "field"
         \/ \E d \in ArgumentDraws :
              /\ ins = Unset
              /\ out = d[1]
              /\ fmt = [options |-> [reg_names |-> d[2]],
                        overflow_checks |-> overflow_checks]
              /\ pc = "argument"

\* Register::parse(value) and its like, called by the field accessor
ParseField ==
    /\ pc = "field"
    /\ out' = EnumArgument(ins.enum,
                           EnumParse(PrimitiveEnums[ins.enum], ins.value))
    /\ pc' = "argument"
    /\ UNCHANGED <<isa, gen, ins, fmt>>

\* arg.display(options).to_string()
ShowArgument ==
    /\ pc = "argument"
    /\ LET shown == DisplayArgument(out, fmt.options, fmt.overflow_checks)
       IN  IF DisplayArgumentPanics(out, fmt.overflow_checks)
           THEN /\ fmt' = [options |-> fmt.options,
                           overflow_checks |-> fmt.overflow_checks]
                /\ pc' = "panicked"
           ELSE /\ fmt' = [options |-> fmt.options,
                           overflow_checks |-> fmt.overflow_checks,
                           text |-> shown]
                /\ pc' = "shown"
    /\ UNCHANGED <<isa, gen, ins, out>>

NextArg == ParseField \/ ShowArgument

SpecArg == InitArg /\ [][NextArg]_vars


(***************************************************************************)
(* The Thumb front end: Ins::new, Ins::is_half_bl, Ins::parse over a       *)
(* catalogue that declares the first half of BL.                           *)
(***************************************************************************)
\* the catalogue name whose enum variant is Opcode::BlH
BlHName == <<"b", "l", "h">>

\* the first half of BL: the leading bit of the halfword set
BlHOpcode ==
    [BareOpcode([bitmask |-> {CodeBits - 1}, pattern |-> {CodeBits - 1}])
       EXCEPT !.base_name = BlHName]

\* catalogues of distinct descriptors, one of them the first half of BL
ThumbCatalogues ==
    { [c EXCEPT !.opcodes =
         [k \in DOMAIN c.opcodes |->
            IF c.opcodes[k].bitmask = BlHOpcode.bitmask
               /\ c.opcodes[k].pattern = BlHOpcode.pattern
            THEN BlHOpcode ELSE c.opcodes[k]]] :
        c \in { d \in FindCatalogues :
                  \E k \in DOMAIN d.opcodes :
                     /\ d.opcodes[k].bitmask = BlHOpcode.bitmask
                     /\ d.opcodes[k].pattern = BlHOpcode.pattern } }

\* the discriminant of the variant Opcode::BlH: the index of its opcode
BlH(i) ==
    Tag(CHOOSE k \in DOMAIN i.opcodes : OpcodeName(i.opcodes[k]) = BlHName)

\* a test of the word instead of the tag
is_half_bl_by_code(i, in) ==
    Matches(in.code, BlHOpcode.bitmask, BlHOpcode.pattern)

\* self.op == Opcode::BlH
is_half_bl(i, in) == in.op = BlH(i)

InitThumb ==
    /\ isa \in ThumbCatalogues
    /\ gen = Unset
    /\ ins = Unset
    /\ out = Unset
    /\ pc = "catalogue"
    /\ fmt = Unset

\* a caller hands a word to Ins::new
ThumbCall ==
    /\ pc = "generated"
    /\ \E code \in Codes : fmt' = [code |-> code]
    /\ pc' = "called"
    /\ UNCHANGED <<isa, gen, ins, out>>

\* Ins::new(code): let op = Opcode::find(code); Self { code, op }
ThumbInsNew ==
    /\ pc = "called"
    /\ ins' = [code |-> fmt.code, op |-> find(gen.find, fmt.code)]
    /\ pc' = "new"
    /\ UNCHANGED <<isa, gen, out, fmt>>

\* Ins::is_half_bl(&self)
InsIsHalfBl ==
    /\ pc = "new"
    /\ out' = [is_half_bl |-> is_half_bl(isa, ins)]
    /\ pc' = "asked"
    /\ UNCHANGED <<isa, gen, ins, fmt>>

NextThumb ==
    GenerateDisasm \/ ThumbCall \/ ThumbInsNew \/ InsIsHalfBl \/ InsParse

SpecThumb == InitThumb /\ [][NextThumb]_vars


(***************************************************************************)
(* Two callers of one build: each classifies a word, parses it into its    *)
(* own buffer and displays the result, in any interleaving.                *)
(***************************************************************************)
Callers == {"a", "b"}

\* ParsedIns::default(): no mnemonic, every argument None
ParsedInsDefault(max_args) ==
    [mnemonic |-> <<>>, args |-> [k \in 1 .. max_args |-> ArgNone]]

\* a buffer left over from an earlier parse
ParsedInsUsed(max_args) ==
    [mnemonic |-> <<"o">>,
     args |-> [k \in 1 .. max_args |-> [variant |-> "UImm", value |-> {}]]]

\* the number a field's bits of the code stand for: (code >> lo) & mask
RECURSIVE BitsValue(_, _)
BitsValue(value, lo) ==
    IF value = {} THEN 0
    ELSE LET b == CHOOSE b \in value : TRUE
         IN  2 ^ (b - lo) + BitsValue(value \ {b}, lo)

\* the Argument a field accessor builds from its bits of the code
ArgumentOf(i, a) ==
    IF a = ArgNone THEN ArgNone
    ELSE LET field == CHOOSE f \in Range(i.fields) : f.arg = a.variant
             lo    == CHOOSE b \in field.bits : \A c \in field.bits : b <= c
             n     == BitsValue(a.value, lo)
         IN  CASE a.variant = "Reg" ->
                    [variant |-> "Reg", reg |-> EnumParse(Registers, n),
                     deref |-> FALSE, writeback |-> FALSE]
               [] a.variant = "OffsetImm" ->
                    [variant |-> "OffsetImm", post_indexed |-> FALSE,
                     value |-> n]
               [] OTHER -> [variant |-> a.variant, value |-> n]

\* the ParsedIns as the formatter sees it
ParsedInsOf(i, parsed) ==
    [mnemonic |-> parsed.mnemonic,
     args |-> [k \in DOMAIN parsed.args |-> ArgumentOf(i, parsed.args[k])]]

\* pub fn parse(out, ins) that leaves the slots it has no argument for as
\* they were
parse_into_keeping(buffer, i, g, in) ==
    LET r == parse(i, g, in)
    IN  IF r = Panic THEN Panic
        ELSE [r EXCEPT !.args =
                [k \in DOMAIN r.args |->
                   IF r.args[k] = ArgNone /\ k \in DOMAIN buffer.args
                   THEN buffer.args[k] ELSE r.args[k]]]

\* pub fn parse(out, ins): *out = ParsedIns { .. } replaces the whole buffer
parse_into(buffer, i, g, in) == parse(i, g, in)

\* ParsedInsDisplay::fmt up to the loop
fmt_begin(parsed, options, overflow_checks) ==
    LET f0 == [options |-> options, overflow_checks |-> overflow_checks,
               text |-> <<parsed.mnemonic>>, at |-> <<0>>, i |-> 1,
               comma |-> FALSE, deref |-> FALSE, writeback |-> FALSE]
    IN  IF LeadingSpace(parsed.args) THEN Write(f0, <<" ">>, 0) ELSE f0

\* one iteration of the loop
fmt_arg(f, arg) ==
    LET closing == f.deref /\ ClosesDeref(arg)
        f1 == IF closing
              THEN [Write(f, <<"]">>, f.i) EXCEPT !.deref = FALSE]
              ELSE f
        f2 == IF closing /\ f.writeback
              THEN [Write(f1, <<"!">>, f.i) EXCEPT !.writeback = FALSE]
              ELSE f1
        f3 == IF f.comma THEN Write(f2, <<",", " ">>, f.i) ELSE f2
        shown == IF IsDerefReg(arg)
                 THEN RegDisplay(arg.reg, f.options.reg_names)
                 ELSE DisplayArgument(arg, f.options, f.overflow_checks)
        f4 == IF IsDerefReg(arg)
              THEN [Write(f3, <<"[">> \o shown, f.i)
                      EXCEPT !.deref = TRUE, !.writeback = PendingWriteback(arg)]
              ELSE Write(f3, shown, f.i)
        panics == IF IsDerefReg(arg) THEN RegPanics(arg.reg)
                  ELSE DisplayArgumentPanics(arg, f.overflow_checks)
    IN  IF panics THEN Panic
        ELSE [f4 EXCEPT !.comma = TRUE, !.i = @ + 1]

\* the loop over args_iter
RECURSIVE fmt_loop(_, _)
fmt_loop(f, args) ==
    IF f = Panic \/ args = <<>> THEN f
    ELSE fmt_loop(fmt_arg(f, Head(args)), Tail(args))

\* after the loop
fmt_end(f) ==
    IF f = Panic THEN Panic
    ELSE LET f1 == IF f.deref THEN Write(f, <<"]">>, f.i) ELSE f
         IN  IF f.deref /\ f.writeback THEN Write(f1, <<"!">>, f.i) ELSE f1

\* parsed.display(options).to_string(): the text, or a panic
display(parsed, options, overflow_checks) ==
    LET f == fmt_end(fmt_loop(fmt_begin(parsed, options, overflow_checks),
                              args_iter(parsed.args)))
    IN  IF f = Panic THEN Panic ELSE [text |-> Concat(f.text)]

\* the opcode under study with distinct operands and at most one modifier,
\* beside its companion; a ParsedIns has at least one argument slot
CallerCatalogues ==
    { c \in ParseCatalogues :
        /\ get_max_args(c) >= 1
        /\ LET a == UnwrapOr(c.opcodes[2].args, <<>>)
           IN  \A j, k \in DOMAIN a : a[j] = a[k] => j = k
        /\ c.opcodes[2].suffix = <<>>
        /\ c.opcodes[2].modifiers \in {NoneV, Some(<<"cond">>)} }

CallerOptions ==
    { [reg_names |-> DefaultRegNames], [reg_names |-> AvRegNames] }

InitCallers ==
    /\ isa \in CallerCatalogues
    /\ gen = Unset
    /\ ins = [c \in Callers |-> Unset]
    /\ out \in { b \in [Callers -> { ParsedInsDefault(get_max_args(isa)),
                                      ParsedInsUsed(get_max_args(isa)) }] :
                   \* Ins::parse starts from the default; a caller of the
                   \* public parse may pass a buffer it has used before
                   b["a"] = ParsedInsDefault(get_max_args(isa)) }
    /\ \E overflow_checks \in BOOLEAN :
         fmt = [c \in Callers |->
                  [at |-> "idle", overflow_checks |-> overflow_checks]]
    /\ pc = "catalogue"

\* Ins::new(code)
CallerNew(c) ==
    /\ pc = "generated"
    /\ fmt[c].at = "idle"
    /\ \E code \in Codes :
         ins' = [ins EXCEPT ![c] = [code |-> code, op |-> find(gen.find, code)]]
    /\ fmt' = [fmt EXCEPT ![c].at = "new"]
    /\ UNCHANGED <<isa, gen, out, pc>>

\* parse(&mut out, ins) into the caller's buffer
CallerParse(c) ==
    /\ pc = "generated"
    /\ fmt[c].at = "new"
    /\ LET r == parse_into(out[c], isa, gen, ins[c])
       IN  /\ out' = [out EXCEPT ![c] = r]
           /\ fmt' = [fmt EXCEPT ![c].at = IF r = Panic THEN "panicked"
                                           ELSE "parsed"]
    /\ UNCHANGED <<isa, gen, ins, pc>>

\* out.display(options).to_string()
CallerDisplay(c) ==
    /\ pc = "generated"
    /\ fmt[c].at = "parsed"
    /\ \E options \in CallerOptions :
         fmt' = [fmt EXCEPT ![c] =
                   [at |-> "displayed",
                    overflow_checks |-> fmt[c].overflow_checks,
                    options |-> options,
                    shown |-> display(ParsedInsOf(isa, out[c]), options,
                                      fmt[c].overflow_checks)]]
    /\ UNCHANGED <<isa, gen, ins, out, pc>>

NextCallers ==
    \/ GenerateDisasm
    \/ \E c \in Callers : CallerNew(c)
    \/ \E c \in Callers : CallerParse(c)
    \/ \E c \in Callers : CallerDisplay(c)

SpecCallers == InitCallers /\ [][NextCallers]_vars


(***************************************************************************)
(* The fuzzing command line: fuzz/src/main.rs.  ins holds the arguments    *)
(* and the position of args.next(), out the locals of main, fmt the fuzz   *)
(* runs started so far.                                                    *)
(***************************************************************************)
\* the longest command line drawn (program name not counted)
MaxArgv == 4

ArgThreads == <<"-", "t">>
ArgIterations == <<"-", "n">>
ArgArm == <<"a", "r", "m">>
ArgThumb == <<"t", "h", "u", "m", "b">>
ArgV4T == <<"v", "4", "t">>
ArgV5Te == <<"v", "5", "t", "e">>
ArgV6K == <<"v", "6", "k">>
ArgUal == <<"u", "a", "l">>

\* the words a command line is drawn from: the eight the program knows, two
\* numbers and one word it does not know
ArgWords ==
    { ArgThreads, ArgIterations, ArgArm, ArgThumb, ArgV4T, ArgV5Te, ArgV6K,
      ArgUal, <<"0">>, <<"1", "2">>, <<"z">> }

Digits == <<"0", "1", "2", "3", "4", "5", "6", "7", "8", "9">>

DigitOf(ch) == (CHOOSE d \in DOMAIN Digits : Digits[d] = ch) - 1

\* str::parse::<usize>().ok(): decimal digits after an optional "+"
RECURSIVE DigitsValue(_, _)
DigitsValue(word, acc) ==
    IF word = <<>> THEN acc
    ELSE DigitsValue(Tail(word), 10 * acc + DigitOf(Head(word)))

ParseUsize(word) ==
    LET body == IF word /= <<>> /\ Head(word) = "+" THEN Tail(word) ELSE word
    IN  IF body /= <<>> /\ \A k \in DOMAIN body : body[k] \in Range(Digits)
        THEN Some(DigitsValue(body, 0))
        ELSE NoneV

\* args.next().and_then(|a| a.parse().ok())
NextNumber(argv, k) ==
    IF k \in DOMAIN argv THEN ParseUsize(argv[k]) ELSE NoneV

\* if arm == thumb { panic!(..) } narrowed to the case of both
WidthCheckOnlyBoth(arm, thumb) == arm /\ thumb

\* if arm == thumb { panic!("Expected one of: arm, thumb") }
WidthCheck(arm, thumb) == arm = thumb

\* the values num_cpus::get() may return
NumCpus == {1, 2}

InitFuzz ==
    /\ isa = Unset
    /\ gen = Unset
    /\ ins \in { [argv |-> a, next |-> 1] :
                   a \in UNION { [1 .. n -> ArgWords] : n \in 0 .. MaxArgv } }
    /\ out = Unset
    /\ fmt = <<>>
    /\ pc = "main"

\* the initialisation of the locals
FuzzLocals ==
    /\ pc = "main"
    /\ \E cpus \in NumCpus :
         out' = [threads |-> cpus, iterations |-> 1, arm |-> FALSE,
                 thumb |-> FALSE, version |-> NoneV, ual |-> FALSE]
    /\ pc' = "args"
    /\ UNCHANGED <<isa, gen, ins, fmt>>

\* one iteration of while let Some(arg) = args.next()
FuzzArg ==
    /\ pc = "args"
    /\ ins.next \in DOMAIN ins.argv
    /\ LET arg == ins.argv[ins.next]
           number == NextNumber(ins.argv, ins.next + 1)
           takes == arg \in {ArgThreads, ArgIterations}
           known == arg \in { ArgThreads, ArgIterations, ArgArm, ArgThumb,
                              ArgV4T, ArgV5Te, ArgV6K, ArgUal }
       IN  IF ~known \/ (takes /\ ~number.some)
           THEN /\ pc' = "panicked"
                /\ out' = out
                /\ ins' = [ins EXCEPT !.next = @ + 1]
           ELSE /\ pc' = "args"
                /\ ins' = [ins EXCEPT !.next = IF takes
                                                THEN IF @ + 2 > Len(ins.argv) + 1
                                                     THEN Len(ins.argv) + 1
                                                     ELSE @ + 2
                                                ELSE @ + 1]
                /\ out' = CASE arg = ArgThreads -> [out EXCEPT !.threads = number.v]
                            [] arg = ArgIterations ->
                                 [out EXCEPT !.iterations = number.v]
                            [] arg = ArgArm -> [out EXCEPT !.arm = TRUE]
                            [] arg = ArgThumb -> [out EXCEPT !.thumb = TRUE]
                            [] arg = ArgV4T -> [out EXCEPT !.version = Some("V4T")]
                            [] arg = ArgV5Te -> [out EXCEPT !.version = Some("V5Te")]
                            [] arg = ArgV6K -> [out EXCEPT !.version = Some("V6K")]
                            [] arg = ArgUal -> [out EXCEPT !.ual = TRUE]
    /\ UNCHANGED <<isa, gen, fmt>>

\* the fuzz calls of match version { .. }: one per selected width
FuzzCalls(locals) ==
    LET run(width) == [version |-> locals.version.v, width |-> width,
                       threads |-> locals.threads,
                       iterations |-> locals.iterations,
                       flags |-> [ual |-> locals.ual]]
    IN  (IF locals.arm THEN <<run("arm")>> ELSE <<>>)
        \o (IF locals.thumb THEN <<run("thumb")>> ELSE <<>>)

\* after the loop: the four checks, then the fuzz run
FuzzRun ==
    /\ pc = "args"
    /\ ins.next \notin DOMAIN ins.argv
    /\ IF \/ out.threads = 0
          \/ out.iterations = 0
          \/ WidthCheck(out.arm, out.thumb)
          \/ ~out.version.some
       THEN /\ pc' = "panicked"
            /\ fmt' = fmt
       ELSE /\ pc' = "exited"
            /\ fmt' = fmt \o FuzzCalls(out)
    /\ UNCHANGED <<isa, gen, ins, out>>

NextFuzz == FuzzLocals \/ FuzzArg \/ FuzzRun

SpecFuzz == InitFuzz /\ [][NextFuzz]_vars


(***************************************************************************)
(* Field expressions: the primitives bits, negate and arm_shift that       *)
(* FoldFieldExpr rewrites, over words of IntBits bits (32 in the source).  *)
(***************************************************************************)
\* 2^IntBits
WordModulus == 2 ^ IntBits

Words == 0 .. (WordModulus - 1)

\* a & b on words
RECURSIVE BitAnd(_, _)
BitAnd(a, b) ==
    IF a = 0 \/ b = 0 THEN 0
    ELSE (a % 2) * (b % 2) + 2 * BitAnd(a \div 2, b \div 2)

\* 1 << n panics under overflow checks when n is the width or more
ShlPanics(n, overflow_checks) == overflow_checks /\ n >= IntBits

\* 1 << n: without overflow checks only the low bits of n count
ShlOne(n) == (2 ^ (n % IntBits)) % WordModulus

\* mask = (1 << (end - start)) - 1, the literal HexLiteral prints
BitsMask(start, end) == ShlOne(end - start) - 1

\* the accessor of the stale generator: shifts only fields wider than a bit
bits_shift_wide_only(code, start, end) ==
    IF start > 0 /\ end - start > 1
    THEN BitAnd(code, BitsMask(start, end) * (2 ^ start)) \div (2 ^ start)
    ELSE BitAnd(code, BitsMask(start, end) * (2 ^ start))

\* (code & mask) when shift == 0, ((code >> shift) & mask) otherwise
bits(code, start, end) ==
    IF start = 0 THEN BitAnd(code, BitsMask(start, end))
    ELSE BitAnd(code \div (2 ^ start), BitsMask(start, end))

\* value as i32
AsI32(value) == IF value >= WordModulus \div 2 THEN value - WordModulus ELSE value

\* -value panics under overflow checks for the minimum
NegatePanics(value, flag, overflow_checks) ==
    overflow_checks /\ flag /\ AsI32(value) = IntMin

\* negate with the branches exchanged
negate_swapped(value, flag) ==
    IF flag
    THEN AsI32(value)
    ELSE (IF AsI32(value) = IntMin THEN IntMin ELSE -AsI32(value))

\* { let value = lhs as i32; if rhs { -value } else { value } }
negate(value, flag) ==
    IF flag
    THEN (IF AsI32(value) = IntMin THEN IntMin ELSE -AsI32(value))
    ELSE AsI32(value)

\* arm_shift that reads 0 as the width for every shift op
arm_shift_any_op(value, op) == IF value = 0 THEN 32 ELSE value

\* { let value = lhs; match rhs { 1 | 2 => if value == 0 { 32 } else
\* { value }, _ => value } }
arm_shift(value, op) ==
    IF op \in {1, 2} THEN (IF value = 0 THEN 32 ELSE value) ELSE value

\* the bit ranges [start, end) of a word
BitRanges ==
    { r \in [start : 0 .. (IntBits - 1), end : 1 .. IntBits] : r.start < r.end }

InitField ==
    /\ isa \in BitRanges
    /\ gen = Unset
    /\ ins \in [code : Words]
    /\ out = Unset
    /\ fmt \in [overflow_checks : BOOLEAN]
    /\ pc = "field"

\* FoldFieldExpr on self.code.bits(start, end): the shift and the mask
FoldBits ==
    /\ pc = "field"
    /\ IF ShlPanics(isa.end - isa.start, fmt.overflow_checks)
       THEN /\ gen' = Panic
            /\ pc' = "failed"
       ELSE /\ gen' = [shift |-> isa.start, mask |-> BitsMask(isa.start, isa.end)]
            /\ pc' = "generated"
    /\ UNCHANGED <<isa, ins, out, fmt>>

\* the generated expression evaluated on an instruction word
ReadBits ==
    /\ pc = "generated"
    /\ out' = bits(ins.code, isa.start, isa.end)
    /\ pc' = "read"
    /\ UNCHANGED <<isa, gen, ins, fmt>>

\* the shift ops an arm_shift argument evaluates to: the four of the
\* encoding and one beyond
ShiftOps == 0 .. Len(Shifts)

\* value.negate(flag) on the bits read
NegateBits ==
    /\ pc = "read"
    /\ \E flag \in BOOLEAN :
         IF NegatePanics(out, flag, fmt.overflow_checks)
         THEN /\ out' = Panic
              /\ pc' = "panicked"
         ELSE /\ out' = [value |-> out, flag |-> flag,
                         result |-> negate(out, flag)]
              /\ pc' = "negated"
    /\ UNCHANGED <<isa, gen, ins, fmt>>

\* Argument::OffsetImm(OffsetImm { value, .. }).display(..)
ShowOffset ==
    /\ pc = "negated"
    /\ LET arg == [variant |-> "OffsetImm", post_indexed |-> FALSE,
                   value |-> out.result]
       IN  IF DisplayArgumentPanics(arg, fmt.overflow_checks)
           THEN /\ fmt' = fmt
                /\ pc' = "panicked"
           ELSE /\ fmt' = [overflow_checks |-> fmt.overflow_checks,
                           text |-> DisplayArgument(
                                      arg, [reg_names |-> DefaultRegNames],
                                      fmt.overflow_checks)]
                /\ pc' = "offset"
    /\ UNCHANGED <<isa, gen, ins, out>>

\* value.arm_shift(op) on the bits read
ArmShiftBits ==
    /\ pc = "read"
    /\ \E op \in ShiftOps :
         out' = [value |-> out, op |-> op, result |-> arm_shift(out, op)]
    /\ pc' = "shifted"
    /\ UNCHANGED <<isa, gen, ins, fmt>>

NextField == FoldBits \/ ReadBits \/ NegateBits \/ ShowOffset \/ ArmShiftBits

SpecField == InitField /\ [][NextField]_vars


(***************************************************************************)
(* Catalogues whose boolean modifiers include one with the pattern 0: the  *)
(* predicate holds when the masked bit is clear.                           *)
(***************************************************************************)
GuardModifiers ==
    Append(PoolModifiers,
           [name |-> "z", bitmask |-> Some({0}), pattern |-> Some({}),
            cases |-> NoneV, suffix |-> Some(<<"z">>)])

\* the opcode under study with any list of the modifiers and at most the
\* declared field Rd, beside its companion
GuardCatalogues ==
    { [opcodes |-> <<Companion(op), op>>, fields |-> PoolFields,
       modifiers |-> GuardModifiers] :
        op \in { [bitmask |-> {1}, pattern |-> p, base_name |-> <<"b">>,
                  suffix |-> <<>>, args |-> a, modifiers |-> m] :
                   p \in {{}, {1}},
                   a \in {NoneV, Some(<<"Rd">>)},
                   m \in NameLists({m.name : m \in Range(GuardModifiers)},
                                   MaxMods) } }

InitGuard ==
    /\ isa \in GuardCatalogues
    /\ gen = Unset
    /\ ins = Unset
    /\ out = Unset
    /\ pc = "catalogue"
    /\ fmt = Unset

SpecGuard == InitGuard /\ [][Next]_vars


(***************************************************************************)
(* The accessor of an enumerated modifier whose cases carry their own      *)
(* masks, over every list of cases on the two low bits.                    *)
(***************************************************************************)
\* the longest list of cases drawn
MaxCases == 3

\* the (bitmask, pattern) pairs a case may carry
CaseSignatures ==
    { d \in [bitmask : SUBSET {0, 1}, pattern : SUBSET {0, 1}] :
        d.pattern \subseteq d.bitmask }

\* a modifier without a global bitmask, its cases named by their position
OwnMaskModifiers ==
    { [name |-> "mode", bitmask |-> NoneV, pattern |-> NoneV, suffix |-> NoneV,
       cases |-> Some([k \in DOMAIN sigs |->
                         [name |-> ToString(k), bitmask |-> Some(sigs[k].bitmask),
                          pattern |-> sigs[k].pattern, suffix |-> NoneV,
                          args |-> NoneV]])] :
        sigs \in UNION { [1 .. n -> CaseSignatures] : n \in 1 .. MaxCases } }

InitMode ==
    /\ isa \in { [opcodes |-> <<>>, fields |-> <<>>, modifiers |-> <<m>>] :
                   m \in OwnMaskModifiers }
    /\ gen = Unset
    /\ ins = Unset
    /\ out = Unset
    /\ pc = "catalogue"
    /\ fmt = Unset

\* generate_modifier_accessors: the sorted chain of tests
GenerateAccessor ==
    /\ pc = "catalogue"
    /\ gen' = [chain |-> StableSort(isa.modifiers[1].cases.v)]
    /\ pc' = "generated"
    /\ UNCHANGED <<isa, ins, out, fmt>>

\* ins.modifier_mode() on a word
CallAccessor ==
    /\ pc = "generated"
    /\ \E code \in Codes :
         /\ ins' = [code |-> code]
         /\ out' = FirstCase(isa.modifiers[1], gen.chain, code,
                             isa.modifiers[1].bitmask)
    /\ pc' = "accessed"
    /\ UNCHANGED <<isa, gen, fmt>>

NextMode == GenerateAccessor \/ CallAccessor

SpecMode == InitMode /\ [][NextMode]_vars


(***************************************************************************)
(* The registers of an argument: the accessor of a field with a register   *)
(* member reads bits of the code and hands them to Register::parse; the    *)
(* register list is rendered bit by bit.                                   *)
(***************************************************************************)
\* the bit ranges the catalogues give to a register member: up to four bits
RegisterFields == { r \in BitRanges : r.end - r.start <= 4 }

\* the arguments with a register member
RegisterShapes == {"Reg", "ShiftReg", "OffsetReg"}

\* the struct the accessor builds: the register member is
\* Register::parse(self.code.bits(start, end))
RegisterArgument(shape, code, r) ==
    LET reg == EnumParse(Registers, bits(code, r.start, r.end))
    IN  CASE shape = "Reg" ->
               [variant |-> "Reg", reg |-> reg, deref |-> FALSE,
                writeback |-> FALSE]
          [] shape = "ShiftReg" ->
               [variant |-> "ShiftReg", op |-> "Lsl", reg |-> reg]
          [] shape = "OffsetReg" ->
               [variant |-> "OffsetReg", add |-> TRUE, post_indexed |-> FALSE,
                reg |-> reg]

\* for i in 0..=16
RegListIndicesInclusive == 0 .. 16

\* for i in 0..16
RegListIndices == 0 .. 15

\* the registers the loop of Argument::RegList displays:
\* Register::parse(i) for the i whose bit is set
RegListRegisters(regs) ==
    { EnumParse(Registers, i) : i \in RegListIndices \cap regs }

InitReg ==
    /\ gen = Unset
    /\ out = Unset
    /\ pc = "field"
    /\ fmt \in [options : {[reg_names |-> DefaultRegNames]},
                overflow_checks : BOOLEAN]
    /\ \/ /\ isa \in [shape : RegisterShapes, bits : RegisterFields]
          /\ ins \in [code : Words]
       \/ /\ isa = [shape |-> "RegList"]
          /\ ins \in [regs : {x \in SUBSET (0 .. 16) :
                                Cardinality(x) <= MaxListRegs},
                      user_mode : BOOLEAN]

\* the accessor of a field with a register member
RegAccessor ==
    /\ pc = "field"
    /\ isa.shape \in RegisterShapes
    /\ out' = RegisterArgument(isa.shape, ins.code, isa.bits)
    /\ pc' = "argument"
    /\ UNCHANGED <<isa, gen, ins, fmt>>

\* the accessor of a register list
RegListAccessor ==
    /\ pc = "field"
    /\ isa.shape = "RegList"
    /\ out' = [variant |-> "RegList", regs |-> ins.regs,
               user_mode |-> ins.user_mode]
    /\ pc' = "argument"
    /\ UNCHANGED <<isa, gen, ins, fmt>>

NextReg == RegAccessor \/ RegListAccessor \/ ShowArgument

SpecReg == InitReg /\ [][NextReg]_vars


(***************************************************************************)
(* The errors of generation: the accessors of the fields and of the        *)
(* modifiers, and the enums of the arguments with values.  An error holds  *)
(* the names its message is formatted with.                                *)
(***************************************************************************)
\* most members of a struct argument
MaxMembers == 2
\* largest value of an argument with values
MaxValue == 2

\* bail!(..) and with_context(..): the entry names the message holds
Err(names) == [error |-> TRUE, names |-> names]

\* Ok(tokens)
Ok(tokens) == [error |-> FALSE, tokens |-> tokens]

\* the first error of the results, or all of their tokens
RECURSIVE Collect(_)
Collect(results) ==
    IF results = <<>> THEN Ok(<<>>)
    ELSE IF Head(results).error THEN Head(results)
    ELSE LET rest == Collect(Tail(results))
         IN  IF rest.error THEN rest
             ELSE Ok(<<Head(results).tokens>> \o rest.tokens)

\* the member of a struct argument, its value being bits of the code
struct_member(arg, type) ==
    CASE type = "Struct" -> Err({arg.name})
      [] type = "Enum" -> Err({arg.name})
      [] OTHER -> Ok(type)

\* the accessor of a field whose argument is a struct
field_accessor_tokens(arg) ==
    Collect([k \in DOMAIN arg.members |-> struct_member(arg, arg.members[k])])

\* the if of a case of a modifier without a mask of its own
case_if_tokens(modifier, case) ==
    IF case.bitmask.some THEN Ok(case.name)
    ELSE Err({case.name, modifier.name})

\* the accessor of a modifier: the match on (bitmask, pattern, cases)
modifier_accessor_tokens(modifier) ==
    CASE modifier.bitmask.some /\ modifier.pattern.some /\ ~modifier.cases.some ->
           Ok("bool")
      [] ~modifier.pattern.some /\ modifier.cases.some ->
           IF modifier.bitmask.some THEN Ok("match")
           ELSE Collect([k \in DOMAIN modifier.cases.v |->
                           case_if_tokens(modifier, StableSort(modifier.cases.v)[k])])
      [] OTHER -> Err({modifier.name})

\* generate_disasm: the accessors of the fields, then those of the modifiers
generate_disasm(catalogue) ==
    Collect(<<field_accessor_tokens(catalogue.arg),
              modifier_accessor_tokens(catalogue.modifier)>>)

\* Arg::is_continuous: the values are all those from the least to the
\* greatest
is_continuous(values) ==
    \A v \in 0 .. MaxValue :
       (\E a, b \in values : a <= v /\ v <= b) => v \in values

\* bail!("No support for discontinuous args currently")
discontinuous(arg) == Err({})

\* generate_argument_enums on one argument: the match on
\* (values, signed, boolean)
argument_enum_tokens(arg) ==
    CASE ~arg.values.some /\ ~(arg.signed /\ arg.boolean) -> Ok("scalar")
      [] arg.values.some /\ ~arg.signed /\ ~arg.boolean ->
           IF is_continuous(arg.values.v) THEN Ok("enum")
           ELSE discontinuous(arg)
      [] OTHER -> Err({arg.name})

\* the modifiers of every shape, the cases with and without a mask
ShapeModifiers ==
    { [name |-> "m", bitmask |-> b, pattern |-> p, cases |-> c] :
        b \in {NoneV, Some({0})}, p \in {NoneV, Some({0})},
        c \in {NoneV} \cup
              { Some([k \in 1 .. n |->
                        [name |-> ToString(k), bitmask |-> ms[k]]]) :
                  n \in 1 .. 2, ms \in [1 .. 2 -> {NoneV, Some({0}), Some({0, 1})}] } }

\* the struct arguments of up to MaxMembers members
StructArgs ==
    { [name |-> "a", members |-> ms] :
        ms \in UNION { [1 .. n -> {"U32", "I32", "Bool", "Custom", "Struct", "Enum"}] :
                         n \in 1 .. MaxMembers } }

\* the arguments of the generator of the argument enums
ValueArgs ==
    { [name |-> "e", values |-> v, signed |-> sg, boolean |-> bl] :
        v \in {NoneV} \cup { Some(x) : x \in (SUBSET (0 .. MaxValue)) \ {{}} },
        sg \in BOOLEAN, bl \in BOOLEAN }

InitErr ==
    /\ \/ isa \in [generator : {"accessors"}, arg : StructArgs,
                   modifier : ShapeModifiers]
       \/ isa \in [generator : {"enums"}, arg : ValueArgs]
    /\ gen = Unset
    /\ ins = Unset
    /\ out = Unset
    /\ fmt = Unset
    /\ pc = "catalogue"

\* generate_disasm(isa, isa_args, module)
GenerateAccessors ==
    /\ pc = "catalogue"
    /\ isa.generator = "accessors"
    /\ gen' = generate_disasm(isa)
    /\ pc' = IF gen'.error THEN "failed" ELSE "generated"
    /\ UNCHANGED <<isa, ins, out, fmt>>

\* generate_argument_enums(isa)
GenerateArgumentEnums ==
    /\ pc = "catalogue"
    /\ isa.generator = "enums"
    /\ gen' = argument_enum_tokens(isa.arg)
    /\ pc' = IF gen'.error THEN "failed" ELSE "generated"
    /\ UNCHANGED <<isa, ins, out, fmt>>

NextErr == GenerateAccessors \/ GenerateArgumentEnums

SpecErr == InitErr /\ [][NextErr]_vars


(***************************************************************************)
(* The opcode enum and its mnemonic table.                                 *)
(***************************************************************************)
\* most opcodes of a catalogue: one more than a u8 counts
MaxCatalogue == 257

\* the catalogues of n opcodes, the opcode at index i named "o<i>"
OpcodeCatalogues ==
    { [opcodes |-> [k \in 1 .. n |->
                      [base_name |-> <<"o">>, suffix |-> Decimal(k - 1)]]] :
        n \in 1 .. MaxCatalogue }

\* i.try_into().unwrap() to u8 panics from 256 on
EnumValuePanics(i) == i > 255

\* generate_opcode_tokens: the discriminants, the mnemonics and the count
generate_opcode_tokens(sorted_opcodes) ==
    [enum |-> [k \in DOMAIN sorted_opcodes |-> Tag(k)],
     mnemonics |-> [k \in DOMAIN sorted_opcodes |-> OpcodeName(sorted_opcodes[k])],
     num_opcodes |-> Len(sorted_opcodes)]

\* OPCODE_MNEMONICS[self as usize] panics when the index is not in the table
MnemonicPanics(g, tag) == tag >= Len(g.mnemonics)

\* Opcode::mnemonic
mnemonic(g, tag) == g.mnemonics[tag + 1]

\* Opcode::count
count(g) == g.num_opcodes

\* the enum compiles: no two variants, Illegal included, share a discriminant
EnumCompiles(g) == \A k \in DOMAIN g.enum : g.enum[k] /= Illegal

InitOpcode ==
    /\ isa \in OpcodeCatalogues
    /\ gen = Unset
    /\ ins = Unset
    /\ out = Unset
    /\ fmt = Unset
    /\ pc = "catalogue"

\* generate_disasm: the opcode enum, OPCODE_MNEMONICS and count
GenerateOpcodes ==
    /\ pc = "catalogue"
    /\ IF \E k \in DOMAIN isa.opcodes : EnumValuePanics(Tag(k))
       THEN /\ gen' = Panic
            /\ pc' = "failed"
       ELSE /\ gen' = generate_opcode_tokens(isa.opcodes)
            /\ pc' = "generated"
    /\ UNCHANGED <<isa, ins, out, fmt>>

\* opcode.mnemonic() on a tag of the enum
CallMnemonic ==
    /\ pc = "generated"
    /\ EnumCompiles(gen)
    /\ \E tag \in Range(gen.enum) \cup {Illegal} :
         /\ ins' = [op |-> tag]
         /\ IF MnemonicPanics(gen, tag)
            THEN /\ out' = Panic
                 /\ pc' = "panicked"
            ELSE /\ out' = mnemonic(gen, tag)
                 /\ pc' = "named"
    /\ UNCHANGED <<isa, gen, fmt>>

\* Opcode::count()
CallCount ==
    /\ pc = "generated"
    /\ EnumCompiles(gen)
    /\ ins' = Unset
    /\ out' = count(gen)
    /\ pc' = "counted"
    /\ UNCHANGED <<isa, gen, fmt>>

NextOpcode == GenerateOpcodes \/ CallMnemonic \/ CallCount

SpecOpcode == InitOpcode /\ [][NextOpcode]_vars


(***************************************************************************)
(* Properties of the classifier.                                           *)
(***************************************************************************)
Classified == pc \in {"new", "parsed"}

\* the catalogue opcodes (1-based indices) whose descriptor matches the code
Matching(code) ==
    {i \in DOMAIN isa.opcodes :
       Matches(code, isa.opcodes[i].bitmask, isa.opcodes[i].pattern)}

\* a leaf of the generated body that holds the check of tag t at a position
\* after the first, below at least one split
RECURSIVE LaterInLeaf(_, _)
LaterInLeaf(body, t) ==
    IF body.leaf
    THEN \E k \in DOMAIN body.checks : k > 1 /\ body.checks[k].variant = t
    ELSE LaterInLeaf(body.left, t) \/ LaterInLeaf(body.right, t)

\* C1: whenever find(code) returns a tag t other than Illegal, t is a tag of
\* the catalogue and (code & bitmask(t)) == pattern(t).
C1_FindTagMatches ==
    (Classified /\ ins.op /= Illegal) =>
        /\ (ins.op + 1) \in DOMAIN isa.opcodes
        /\ (ins.code \cap isa.opcodes[ins.op + 1].bitmask)
             = isa.opcodes[ins.op + 1].pattern

\* find returned a tag with a non-zero pattern while another descriptor of
\* the catalogue does not match the code
C1_Witness ==
    /\ pc = "new"
    /\ ins.op /= Illegal
    /\ isa.opcodes[ins.op + 1].pattern /= {}
    /\ Matching(ins.code) /= DOMAIN isa.opcodes

\* C2: find(code) returns Illegal if and only if no descriptor of the
\* catalogue matches the code.
C2_IllegalIffNoMatch ==
    Classified => ((ins.op = Illegal) <=> (Matching(ins.code) = {}))

\* a descriptor survived a split and the fall-through of its leaf's chain:
\* find returned a tag whose check is not the first of its leaf
C2_Witness ==
    /\ pc = "new"
    /\ ins.op /= Illegal
    /\ LaterInLeaf(gen.find, ins.op)
    /\ Cardinality(Matching(ins.code)) = 1

\* C3: when two descriptors d1, d2 both match the code and the bits of
\* mask(d1) are a strict superset of those of mask(d2), find(code) is not d2.
C3_Specificity ==
    Classified =>
        \A d1, d2 \in Matching(ins.code) :
            ( /\ isa.opcodes[d2].bitmask \subseteq isa.opcodes[d1].bitmask
              /\ isa.opcodes[d2].bitmask /= isa.opcodes[d1].bitmask )
            => ins.op /= Tag(d2)

\* a specific descriptor shadows its catch-all in a leaf below a split
C3_Witness ==
    /\ pc = "new"
    /\ ~gen.find.leaf
    /\ \E d1, d2 \in Matching(ins.code) :
         /\ isa.opcodes[d2].bitmask \subseteq isa.opcodes[d1].bitmask
         /\ isa.opcodes[d2].bitmask /= isa.opcodes[d1].bitmask
         /\ ins.op = Tag(d1)


(***************************************************************************)
(* Properties of the generated parse functions.                            *)
(***************************************************************************)
Parsed == pc = "parsed"

\* the descriptor of the classified instruction
OpcodeOf == isa.opcodes[ins.op + 1]

ModifierNames(opcode) == UnwrapOr(opcode.modifiers, <<>>)

\* the tuple of modifier values the accessors compute from the code
ModifierValues(opcode, code) ==
    [k \in DOMAIN ModifierNames(opcode) |->
       modifier_accessor(isa, ModifierNames(opcode)[k], code)]

\* the guard tuples of the opcode's catalogue cases
GuardTuples(opcode) ==
    { [k \in DOMAIN ModifierNames(opcode) |->
         case_value(combo[k], get_modifier(isa, ModifierNames(opcode)[k]))] :
      combo \in Range(cartesian(get_modifier_cases(isa, opcode))) }

\* per modifier, the catalogue case its value selects
SelectedCases(opcode, code) ==
    [k \in DOMAIN ModifierNames(opcode) |->
       CHOOSE c \in Range(get_modifier_cases(isa, opcode)[k]) :
         case_value(c, get_modifier(isa, ModifierNames(opcode)[k]))
           = ModifierValues(opcode, code)[k]]

IsParsedIns(o) ==
    /\ DOMAIN o = {"mnemonic", "args"}
    /\ DOMAIN o.args = 1 .. gen.max_args

IsIllegalIns(o) ==
    /\ IsParsedIns(o)
    /\ o.mnemonic = <<"<", "i", "l", "l", "e", "g", "a", "l", ">">>
    /\ \A k \in DOMAIN o.args : o.args[k] = [variant |-> "None"]

\* C4: Ins::new(code) followed by parse() is total: every word is given a
\* tag that is Illegal or below the number of opcodes, and parse returns a
\* ParsedIns of max_args slots without panicking or indexing
\* MNEMONIC_PARSERS out of range.
C4_DecodeTotal ==
    Classified =>
        /\ ins.op = Illegal \/ (ins.op + 1) \in DOMAIN gen.parsers
        /\ Parsed => IsParsedIns(out)

\* the last entry of the parser table is the one indexed
C4_Witness ==
    /\ Parsed
    /\ ins.op + 1 = Len(gen.parsers)
    /\ IsParsedIns(out)
    /\ ~IsIllegalIns(out)

C6_DefaultArm ==
    ( /\ Parsed
      /\ ins.op /= Illegal
      /\ ModifierNames(OpcodeOf) /= <<>>
      /\ ModifierValues(OpcodeOf, ins.code) \notin GuardTuples(OpcodeOf) )
    => IsIllegalIns(out)

\* an enumerated modifier of an opcode with declared fields evaluates to
\* Illegal
C6_Witness ==
    /\ Parsed
    /\ ins.op /= Illegal
    /\ UnwrapOr(OpcodeOf.args, <<>>) /= <<>>
    /\ \E k \in DOMAIN ModifierNames(OpcodeOf) :
         /\ get_modifier(isa, ModifierNames(OpcodeOf)[k]).cases.some
         /\ ModifierValues(OpcodeOf, ins.code)[k]
              = [enum |-> ModifierNames(OpcodeOf)[k], variant |-> "Illegal"]
    /\ IsIllegalIns(out)

\* C7: in every parsed instruction the None arguments form a suffix: no
\* argument other than None follows a None.
C7_NoneSuffix ==
    (Parsed /\ IsParsedIns(out)) =>
        \A j, k \in DOMAIN out.args :
            (j < k /\ out.args[j] = ArgNone) => out.args[k] = ArgNone

\* two operands followed by padding
C7_Witness ==
    /\ Parsed
    /\ IsParsedIns(out)
    /\ Len(out.args) >= 3
    /\ out.args[2] /= ArgNone
    /\ out.args[3] = ArgNone

\* C8: for an opcode with modifiers and a selected case tuple, the mnemonic
\* is the opcode's base name, then the suffixes of the selected cases in
\* modifier declaration order, then the opcode's own tail suffix.
C8_Mnemonic ==
    ( /\ Parsed
      /\ ins.op /= Illegal
      /\ ModifierNames(OpcodeOf) /= <<>>
      /\ ModifierValues(OpcodeOf, ins.code) \in GuardTuples(OpcodeOf) )
    => LET sel == SelectedCases(OpcodeOf, ins.code)
       IN  /\ IsParsedIns(out)
           /\ out.mnemonic =
                OpcodeOf.base_name
                \o Concat([k \in DOMAIN sel |-> UnwrapOr(sel[k].suffix, <<>>)])
                \o OpcodeOf.suffix

\* two selected cases with different suffixes, and a tail suffix
C8_Witness ==
    /\ Parsed
    /\ ins.op /= Illegal
    /\ Len(ModifierNames(OpcodeOf)) = 2
    /\ ModifierValues(OpcodeOf, ins.code) \in GuardTuples(OpcodeOf)
    /\ OpcodeOf.suffix /= <<>>
    /\ LET sel == SelectedCases(OpcodeOf, ins.code)
       IN  /\ sel[1].suffix.some
           /\ sel[2].suffix.some
           /\ sel[1].suffix /= sel[2].suffix
    /\ ~IsIllegalIns(out)

\* the fields an instruction's operands are read from: the opcode's
\* declared fields, then the extra fields of the selected cases
OperandFields(opcode, code) ==
    LET declared == UnwrapOr(opcode.args, <<>>)
        sel      == SelectedCases(opcode, code)
        names    == declared
                    \o Concat([k \in DOMAIN sel |-> UnwrapOr(sel[k].args, <<>>)])
    IN  [k \in DOMAIN names |->
           CHOOSE f \in Range(isa.fields) : f.name = names[k]]

\* C9: the argument vector is the opcode's declared fields in order, then
\* the extra fields of the selected cases in modifier order, then None up
\* to the arity; no field is dropped, the fields never exceed the arity.
C9_OperandVector ==
    ( /\ Parsed
      /\ ins.op /= Illegal
      /\ ModifierValues(OpcodeOf, ins.code) \in GuardTuples(OpcodeOf) )
    => LET fields == OperandFields(OpcodeOf, ins.code)
       IN  /\ IsParsedIns(out)
           /\ Len(fields) <= gen.max_args
           /\ \A k \in DOMAIN out.args :
                out.args[k] =
                  IF k <= Len(fields)
                  THEN [variant |-> fields[k].arg,
                        value |-> ins.code \cap fields[k].bits]
                  ELSE [variant |-> "None"]

\* declared fields followed by the different extra fields of two selected
\* cases
C9_Witness ==
    /\ Parsed
    /\ ins.op /= Illegal
    /\ UnwrapOr(OpcodeOf.args, <<>>) /= <<>>
    /\ Len(ModifierNames(OpcodeOf)) = 2
    /\ ModifierValues(OpcodeOf, ins.code) \in GuardTuples(OpcodeOf)
    /\ LET sel == SelectedCases(OpcodeOf, ins.code)
       IN  /\ sel[1].args.some
           /\ sel[2].args.some
           /\ sel[1].args /= sel[2].args
           /\ sel[1].args.v /= UnwrapOr(OpcodeOf.args, <<>>)
    /\ Len(out.args) = Len(OperandFields(OpcodeOf, ins.code))


(***************************************************************************)
(* Properties of the text formatter.                                       *)
(***************************************************************************)
Displayed == pc = "displayed"

\* the operands the formatter renders
Operands == args_iter(out.args)

Opens(j) == Operands[j].variant = "Reg" /\ Operands[j].deref

PostIndexedOrCoOption(j) ==
    \/ Operands[j].variant = "CoOption"
    \/ /\ Operands[j].variant \in {"OffsetImm", "OffsetReg"}
       /\ Operands[j].post_indexed

\* operand j is the first post-indexed offset or CoOption after a deref
\* register
ClosesAt(j) ==
    /\ PostIndexedOrCoOption(j)
    /\ \E i \in 1 .. (j - 1) :
         /\ Opens(i)
         /\ \A m \in (i + 1) .. (j - 1) : ~PostIndexedOrCoOption(m)

\* a deref register is followed by no post-indexed offset and no CoOption
ClosesAtEnd ==
    \E i \in DOMAIN Operands :
        /\ Opens(i)
        /\ \A m \in (i + 1) .. Len(Operands) : ~PostIndexedOrCoOption(m)

\* the pieces "]" written during loop iteration j
CloseMarks(j) ==
    {p \in DOMAIN fmt.text : fmt.at[p] = j /\ fmt.text[p] = <<"]">>}

\* piece p is followed, within iteration j, by the ", " separator and the
\* operand, with nothing but the writeback mark "!" in between
BeforeSeparator(p, j) ==
    \E q \in {p + 1, p + 2} :
        /\ (q + 1) \in DOMAIN fmt.text
        /\ fmt.text[q] = <<",", " ">>
        /\ q = p + 2 => fmt.text[p + 1] = <<"!">>
        /\ \A r \in p .. (q + 1) : fmt.at[r] = j
        /\ \A r \in DOMAIN fmt.text : r > q + 1 => fmt.at[r] > j

\* C10: once a deref register has opened "[", the closing "]" is written
\* exactly once: as the first piece of the first later operand that is a
\* post-indexed OffsetImm or OffsetReg or a CoOption, before that operand's
\* ", " separator (only the writeback mark "!" may stand between), or else
\* right after the last operand when the stream ends; "]" appears nowhere
\* else in the text.
C10_CloseBracket ==
    Displayed =>
        /\ \A p \in DOMAIN fmt.text :
             "]" \in Range(fmt.text[p]) => fmt.text[p] = <<"]">>
        /\ CloseMarks(0) = {}
        /\ \A j \in DOMAIN Operands :
             IF ClosesAt(j)
             THEN \E p \in DOMAIN fmt.text :
                    /\ CloseMarks(j) = {p}
                    /\ fmt.at[p - 1] < j
                    /\ BeforeSeparator(p, j)
             ELSE CloseMarks(j) = {}
        /\ IF ClosesAtEnd
           THEN \E p \in DOMAIN fmt.text :
                  /\ CloseMarks(Len(Operands) + 1) = {p}
                  /\ fmt.at[p - 1] = Len(Operands)
                  /\ \A r \in DOMAIN fmt.text :
                       r > p => (r = p + 1 /\ fmt.text[r] = <<"!">>)
           ELSE CloseMarks(Len(Operands) + 1) = {}

\* a bracket stays open across an operand that does not close it and is
\* closed before the separator of the post-indexed operand after it
C10_Witness ==
    /\ Displayed
    /\ Len(Operands) = 3
    /\ Opens(1)
    /\ ~Opens(2) /\ ~PostIndexedOrCoOption(2)
    /\ ClosesAt(3)
    /\ \E p \in CloseMarks(3) : fmt.text[p + 1] = <<",", " ">>

\* the deref register whose bracket a "]" written in iteration j closes:
\* the last one before operand j
Opener(j) ==
    CHOOSE i \in DOMAIN Operands :
        /\ i < j
        /\ Opens(i)
        /\ \A m \in (i + 1) .. (j - 1) : m \in DOMAIN Operands => ~Opens(m)

\* C11: "!" is written directly after a closing "]" if and only if the
\* deref register that opened the bracket had writeback = true, both when
\* the bracket is closed before a post-indexed or CoOption operand and when
\* it is closed at the end; the mark is written once per bracket, only
\* there, and is not carried over to a later bracket.
C11_WritebackMark ==
    Displayed =>
        /\ \A p \in DOMAIN fmt.text :
             fmt.text[p] = <<"]">> =>
               ( ( /\ (p + 1) \in DOMAIN fmt.text
                   /\ fmt.text[p + 1] = <<"!">>
                   /\ fmt.at[p + 1] = fmt.at[p] )
                 <=> Operands[Opener(fmt.at[p])].writeback )
        /\ \A p \in DOMAIN fmt.text :
             fmt.text[p] = <<"!">> => (p > 1 /\ fmt.text[p - 1] = <<"]">>)

\* a bracket with writeback is closed before a post-indexed operand, and a
\* later bracket without writeback is closed at the end with no "!"
C11_Witness ==
    /\ Displayed
    /\ Len(Operands) = 3
    /\ Opens(1) /\ Operands[1].writeback
    /\ ClosesAt(2)
    /\ Opens(3) /\ ~Operands[3].writeback
    /\ \E p \in CloseMarks(2) : fmt.text[p + 1] = <<"!">>
    /\ fmt.text[Len(fmt.text)] = <<"]">>

\* the pieces written during loop iteration j, in order
PiecesAt(j) ==
    LET idx == SelectSeq([p \in DOMAIN fmt.text |-> p], LAMBDA p : fmt.at[p] = j)
    IN  [k \in DOMAIN idx |-> fmt.text[idx[k]]]

\* without the bracket closings and writeback marks
Unmarked(pieces) ==
    SelectSeq(pieces, LAMBDA x : x /= <<"]">> /\ x /= <<"!">>)

\* the rendering of operand j, with its opening bracket
OperandText(j) ==
    IF Opens(j)
    THEN <<"[">> \o RegDisplay(Operands[j].reg, fmt.options.reg_names)
    ELSE DisplayArgument(Operands[j], fmt.options, fmt.overflow_checks)

\* C12: the text is the mnemonic verbatim, then a single space if and only
\* if args[0] is not None, then the operands in positional order with
\* exactly one ", " before every operand but the first, and no separator
\* after the last.
C12_TextLayout ==
    Displayed =>
        /\ PiecesAt(0) = IF out.args[1] /= [variant |-> "None"]
                         THEN <<out.mnemonic, <<" ">> >>
                         ELSE <<out.mnemonic>>
        /\ \A j \in DOMAIN Operands :
             Unmarked(PiecesAt(j)) =
                IF j > 1 THEN << <<",", " ">>, OperandText(j) >>
                ELSE <<OperandText(j)>>
        /\ Unmarked(PiecesAt(Len(Operands) + 1)) = <<>>
        /\ \A p \in DOMAIN fmt.at : fmt.at[p] \in 0 .. (Len(Operands) + 1)
        /\ \A p \in DOMAIN fmt.at : p > 1 => fmt.at[p - 1] <= fmt.at[p]

\* three operands, two separators
C12_Witness ==
    /\ Displayed
    /\ Len(Operands) = 3
    /\ Len(PiecesAt(0)) = 2
    /\ Len(SelectSeq(fmt.text, LAMBDA x : x = <<",", " ">>)) = 2

(***************************************************************************)
(* Properties of the rendering of one argument and of the enum parsers.    *)
(***************************************************************************)
Shown == pc = "shown"

\* the rendering ended, with a text or with a panic
Rendered == pc \in {"shown", "panicked"}

RECURSIVE Ascending(_)
Ascending(S) ==
    IF S = {} THEN <<>>
    ELSE LET m == CHOOSE x \in S : \A y \in S : x <= y
         IN  <<m>> \o Ascending(S \ {m})

RECURSIVE Join(_, _)
Join(texts, sep) ==
    IF texts = <<>> THEN <<>>
    ELSE IF Len(texts) = 1 THEN texts[1]
    ELSE texts[1] \o sep \o Join(Tail(texts), sep)

\* the name of register number k under the options in force
NameOfRegister(k) == RegDisplay(Registers[k + 1], fmt.options.reg_names)

\* C13: a RegList renders as "{", the names of exactly the registers i in
\* 0..15 whose bit i is set in regs, in ascending order joined by ", ",
\* then "}", then "^" if and only if user_mode.
C13_RegList ==
    (Shown /\ out.variant = "RegList") =>
        LET set == Ascending({i \in out.regs : i <= 15})
        IN  fmt.text =
              <<"{">>
              \o Join([k \in DOMAIN set |-> NameOfRegister(set[k])], <<",", " ">>)
              \o <<"}">>
              \o (IF out.user_mode THEN <<"^">> ELSE <<>>)

\* registers out of order of significance, a bit above 15, user mode
C13_Witness ==
    /\ Shown
    /\ out.variant = "RegList"
    /\ out.regs = {2, 11, 16}
    /\ out.user_mode
    /\ fmt.options.reg_names.av_registers
    /\ fmt.text = <<"{", "a", "3", ",", " ", "v", "8", "}", "^">>

\* |v| written in lowercase hexadecimal
Magnitude(v) == LowerHex(IF v < 0 THEN 0 - v ELSE v)

\* C14: for every signed value v of an SImm, an OffsetImm or a BranchDest,
\* the rendering completes and is "#", then "-" if and only if v < 0, then
\* "0x" and the lowercase hexadecimal magnitude of v, the minimum included.
C14_SignedHexTotal ==
    (Rendered /\ out.variant \in {"SImm", "OffsetImm", "BranchDest"}) =>
        /\ Shown
        /\ fmt.text = <<"#">> \o (IF out.value < 0 THEN <<"-">> ELSE <<>>)
                      \o <<"0", "x">> \o Magnitude(out.value)

\* the same for every value but the minimum under overflow checks
C14_SignedHexBesidesMin ==
    ( /\ Rendered
      /\ out.variant \in {"SImm", "OffsetImm", "BranchDest"}
      /\ ~(out.value = IntMin /\ fmt.overflow_checks) ) =>
        /\ Shown
        /\ fmt.text = <<"#">> \o (IF out.value < 0 THEN <<"-">> ELSE <<>>)
                      \o <<"0", "x">> \o Magnitude(out.value)

\* the minimum is rendered by a build without overflow checks
C14_Witness ==
    /\ Shown
    /\ out.variant = "BranchDest"
    /\ out.value = IntMin
    /\ ~fmt.overflow_checks
    /\ fmt.text[2] = "-"

\* C15: a StatusMask renders as the status register's name, then one "_"
\* if and only if at least one of flags, status, extension, control is
\* set, then the letters of the set bits in the order f, s, x, c, each at
\* most once.
C15_StatusMask ==
    (Shown /\ out.variant = "StatusMask") =>
        LET set == [f |-> out.flags, s |-> out.status,
                    x |-> out.extension, c |-> out.control]
            letters == SelectSeq(<<"f", "s", "x", "c">>, LAMBDA l : set[l])
        IN  fmt.text = StatusRegDisplay(out.reg)
                       \o (IF letters = <<>> THEN <<>> ELSE <<"_">> \o letters)

\* two set bits that are not neighbours in the order
C15_Witness ==
    /\ Shown
    /\ out.variant = "StatusMask"
    /\ out.reg = "Spsr"
    /\ out.flags /\ ~out.status /\ ~out.extension /\ out.control
    /\ fmt.text = <<"s", "p", "s", "r", "_", "f", "c">>

\* the argument carries the Illegal sentinel of a primitive enum
CarriesIllegal(arg) ==
    \/ arg.variant = "Reg" /\ arg.reg = "Illegal"
    \/ /\ arg.variant \in {"CoReg", "StatusReg", "Shift", "Endian"}
       /\ arg.value = "Illegal"

\* C16: an argument that carries the Illegal sentinel of a primitive enum
\* (register, coprocessor register, shift op, status register, endianness)
\* is displayed without failure and renders "<illegal>".
C16_IllegalSentinelRenders ==
    (Rendered /\ CarriesIllegal(out)) =>
        /\ Shown
        /\ fmt.text = <<"<", "i", "l", "l", "e", "g", "a", "l", ">">>
                      \o (IF out.variant = "Reg" /\ out.writeback
                          THEN <<"!">> ELSE <<>>)

\* the same for the enums other than Register
C16_IllegalBesidesRegister ==
    (Rendered /\ CarriesIllegal(out) /\ out.variant /= "Reg") =>
        /\ Shown
        /\ fmt.text = <<"<", "i", "l", "l", "e", "g", "a", "l", ">">>

\* an illegal coprocessor register parsed from the field value 16
C16_Witness ==
    /\ Shown
    /\ out.variant = "CoReg"
    /\ out.value = "Illegal"
    /\ pc = "shown"
    /\ fmt.text = <<"<", "i", "l", "l", "e", "g", "a", "l", ">">>

\* the last discriminant each enum declares
LastDiscriminant ==
    [Register |-> 15, CoReg |-> 15, StatusReg |-> 1, Shift |-> 4]

\* the discriminant of a variant: its position from 0, u8::MAX for Illegal
Discriminant(enum, x) ==
    IF x = "Illegal" THEN Illegal
    ELSE CHOOSE k \in 0 .. LastDiscriminant[enum] :
           PrimitiveEnums[enum][k + 1] = x

\* the enum value inside the argument built from a parsed field
ParsedVariant == IF out.variant = "Reg" THEN out.reg ELSE out.value

PolicyName(k, names) ==
    LET r == <<"r">> \o Decimal(k)
    IN  CASE k \in 0 .. 3 ->
               IF names.av_registers THEN <<"a">> \o Decimal(k + 1) ELSE r
          [] k \in 4 .. 8 ->
               IF names.av_registers THEN <<"v">> \o Decimal(k - 3) ELSE r
          [] k = 9 ->
               IF names.r9_use = "Pid" THEN <<"s", "b">>
               ELSE IF names.r9_use = "Tls" THEN <<"t", "r">>
               ELSE IF names.av_registers THEN <<"v", "6">> ELSE r
          [] k = 10 ->
               IF names.explicit_stack_limit THEN <<"s", "l">>
               ELSE IF names.av_registers THEN <<"v", "7">> ELSE r
          [] k = 11 ->
               IF names.frame_pointer THEN <<"f", "p">>
               ELSE IF names.av_registers THEN <<"v", "8">> ELSE r
          [] k = 12 -> IF names.ip THEN <<"i", "p">> ELSE r
          [] k = 13 -> <<"s", "p">>
          [] k = 14 -> <<"l", "r">>
          [] k = 15 -> <<"p", "c">>

FirstHalfTag ==
    CHOOSE t \in 0 .. (Len(isa.opcodes) - 1) :
       OpcodeName(isa.opcodes[t + 1]) = BlHName

\* C18: for every code, the Ins built by Ins::new(code) holds that code
\* unchanged and op = find(code), and is_half_bl() is true if and only if
\* that op is the tag of the first half of BL.
C18_HalfBl ==
    /\ (pc \in {"new", "asked", "parsed"}) =>
         /\ ins.code = fmt.code
         /\ ins.op = find(gen.find, fmt.code)
    /\ (pc = "asked") => (out.is_half_bl <=> (ins.op = FirstHalfTag))

\* is_half_bl answered no for a word whose leading bit is set, because a
\* more specific opcode claims the word
C18_Witness ==
    /\ pc = "asked"
    /\ ~out.is_half_bl
    /\ ins.op /= Illegal
    /\ Matches(ins.code, BlHOpcode.bitmask, BlHOpcode.pattern)

\* is_half_bl answered yes
C18_WitnessYes ==
    /\ pc = "asked"
    /\ out.is_half_bl
    /\ ins.op = FirstHalfTag


(***************************************************************************)
(* Determinism across callers.                                             *)
(***************************************************************************)
At(c, places) == pc = "generated" /\ fmt[c].at \in places

DisplayAgrees ==
    /\ (pc = "displayed") =>
         display(out, fmt.options, fmt.overflow_checks)
           = [text |-> Concat(fmt.text)]
    /\ (pc = "panicked") =>
         \E overflow_checks \in BOOLEAN :
            display(out, [reg_names |-> DefaultRegNames], overflow_checks)
              = Panic


(***************************************************************************)
(* Properties of the fuzzing command line.                                 *)
(***************************************************************************)
\* position k of the command line is the operand of a -t or -n before it
RECURSIVE IsOperand(_, _)
IsOperand(argv, k) ==
    /\ k > 1
    /\ argv[k - 1] \in {ArgThreads, ArgIterations}
    /\ ~IsOperand(argv, k - 1)

\* the positions at which the word stands as an argument of its own
Given(argv, word) ==
    {k \in DOMAIN argv : argv[k] = word /\ ~IsOperand(argv, k)}

\* a word of digits, with or without a leading "+"
IsNumber(word) ==
    \E n \in 1 .. Len(word) :
       /\ \A k \in (Len(word) - n + 1) .. Len(word) : word[k] \in Range(Digits)
       /\ (n = Len(word) \/ (n = Len(word) - 1 /\ word[1] = "+"))

\* the number of the last -t (or -n) given is zero
LastCountZero(argv, option) ==
    /\ Given(argv, option) /= {}
    /\ LET k == MaxOf(Given(argv, option))
       IN  \A j \in DOMAIN argv[k + 1] : argv[k + 1][j] \in {"0", "+"}

Versions == {ArgV4T, ArgV5Te, ArgV6K}

InvalidArguments(argv) ==
    \/ \E k \in DOMAIN argv :
          /\ ~IsOperand(argv, k)
          /\ argv[k] \notin Versions \cup {ArgThreads, ArgIterations, ArgArm,
                                           ArgThumb, ArgUal}
    \/ \E k \in Given(argv, ArgThreads) \cup Given(argv, ArgIterations) :
          (k + 1) \notin DOMAIN argv \/ ~IsNumber(argv[k + 1])
    \/ LastCountZero(argv, ArgThreads)
    \/ LastCountZero(argv, ArgIterations)
    \/ (Given(argv, ArgArm) /= {}) = (Given(argv, ArgThumb) /= {})
    \/ \A v \in Versions : Given(argv, v) = {}

\* the variant of the last variant selector given
LastVersion(argv) ==
    LET k == MaxOf(UNION {Given(argv, v) : v \in Versions})
    IN  CASE argv[k] = ArgV4T -> "V4T"
          [] argv[k] = ArgV5Te -> "V5Te"
          [] argv[k] = ArgV6K -> "V6K"

FuzzEnded == pc \in {"exited", "panicked"}

\* C21: the fuzzing command line ends abnormally and starts no fuzz run
\* whenever its arguments are invalid (an unknown argument, -t or -n without
\* a parsable number after it, a thread or iteration count of 0, both or
\* neither of arm and thumb, no variant selector); otherwise it starts
\* exactly one fuzz run, for the last given variant and the one given width.
C21_FuzzArguments ==
    /\ (pc = "panicked") => fmt = <<>>
    /\ FuzzEnded =>
         IF InvalidArguments(ins.argv)
         THEN pc = "panicked" /\ fmt = <<>>
         ELSE /\ pc = "exited"
              /\ Len(fmt) = 1
              /\ fmt[1].version = LastVersion(ins.argv)
              /\ fmt[1].width = IF Given(ins.argv, ArgArm) /= {}
                                THEN "arm" ELSE "thumb"

\* one run started for a command line that gives two different variant
\* selectors, for the later of them
C21_Witness ==
    /\ pc = "exited"
    /\ Len(fmt) = 1
    /\ Given(ins.argv, ArgV5Te) /= {}
    /\ Given(ins.argv, ArgV4T) /= {}
    /\ MaxOf(Given(ins.argv, ArgV5Te)) < MaxOf(Given(ins.argv, ArgV4T))
    /\ fmt[1].version = "V4T"

\* the command line was refused for giving neither arm nor thumb
C21_WitnessNeither ==
    /\ pc = "panicked"
    /\ ins.next > Len(ins.argv)
    /\ \E v \in Versions : Given(ins.argv, v) /= {}
    /\ Given(ins.argv, ArgArm) = {} /\ Given(ins.argv, ArgThumb) = {}


(***************************************************************************)
(* Properties of the field primitives.                                     *)
(***************************************************************************)
\* the value the bits [start, end) of the word hold
Held(code, start, end) == (code \div (2 ^ start)) % (2 ^ (end - start))

\* C22: for every field [lo, hi) with 0 <= lo < hi <= width of the word, the
\* generated accessor exists and returns the value the bits [lo, hi) of the
\* word hold, (code >> lo) mod 2^(hi - lo); single-bit fields above bit 0 and
\* fields as wide as the word included.
C22_FieldRoundTrip ==
    /\ pc /= "failed"
    /\ (pc = "read") => out = Held(ins.code, isa.start, isa.end)

\* the same for every field narrower than the word
C22_RoundTripNarrower ==
    (isa.end - isa.start < IntBits) =>
       /\ pc /= "failed"
       /\ (pc = "read") => out = Held(ins.code, isa.start, isa.end)

\* a single-bit field above bit 0 read as 1
C22_Witness ==
    /\ pc = "read"
    /\ isa.start > 0
    /\ isa.end = isa.start + 1
    /\ out = 1

\* a field as wide as the word read from a word that is not zero
C22_WitnessWord ==
    /\ pc = "read"
    /\ isa.start = 0
    /\ isa.end = IntBits
    /\ ins.code /= 0

\* C23 as stated: negate(flag) returns, without overflow, the two's-complement
\* negation of the extracted value when flag is true and the value itself
\* when it is false, so that an offset of magnitude m renders as #-0x<m> when
\* flag is true and as #0x<m> when it is false.
C23_NegateRendersSign ==
    /\ (pc = "negated") =>
         out.result = (IF out.flag THEN -out.value ELSE out.value)
    /\ (pc = "offset") =>
         fmt.text = (IF out.flag THEN <<"#", "-", "0", "x">>
                                 ELSE <<"#", "0", "x">>)
                    \o LowerHex(out.value)
    /\ (pc = "panicked") => out /= Panic

\* C23, amended: the same, except that the magnitude 0 renders as #0x0 under
\* either flag.
C23_NegateRendersSignBesidesZero ==
    /\ (pc = "negated") =>
         out.result = (IF out.flag THEN -out.value ELSE out.value)
    /\ (pc = "offset") =>
         fmt.text = (IF out.flag /\ out.value /= 0
                     THEN <<"#", "-", "0", "x">>
                     ELSE <<"#", "0", "x">>)
                    \o LowerHex(out.value)
    /\ (pc = "panicked") => out /= Panic

\* the largest value a field one bit narrower than the word supplies,
\* negated and rendered
C23_Witness ==
    /\ pc = "offset"
    /\ out.flag
    /\ out.value = IntMax
    /\ out.result = -IntMax
    /\ Head(Tail(fmt.text)) = "-"

\* C24: arm_shift(op) maps the encoded amount 0 to 32 exactly when op is 1
\* (LSR) or 2 (ASR); for every other op, and for every amount other than 0,
\* it returns the encoded amount.
C24_ArmShift ==
    (pc = "shifted") =>
       out.result = (IF out.value = 0 /\ out.op \in {1, 2}
                     THEN 32 ELSE out.value)

\* the amount 0 of an ASR became 32, and the amount 0 of a ROR stayed 0
C24_Witness ==
    /\ pc = "shifted"
    /\ out.value = 0
    /\ out.op = 2
    /\ out.result = 32

C24_WitnessRor ==
    /\ pc = "shifted"
    /\ out.value = 0
    /\ out.op = 3
    /\ out.result = 0


(***************************************************************************)
(* Properties of the selection of cases.                                   *)
(***************************************************************************)
IsBoolean(name) == get_modifier(isa, name).pattern.some

\* the predicate of a boolean modifier on the code
Holds(name, code) ==
    Matches(code, get_modifier(isa, name).bitmask.v,
            get_modifier(isa, name).pattern.v)

\* every enumerated modifier of the opcode evaluates to one of its variants
AllVariantsLegal(opcode, code) ==
    \A k \in DOMAIN ModifierNames(opcode) :
       IsBoolean(ModifierNames(opcode)[k])
       \/ modifier_accessor(isa, ModifierNames(opcode)[k], code)
            /= IllegalVariant(get_modifier(isa, ModifierNames(opcode)[k]))

\* per modifier, the case the code stands for: for a boolean modifier the
\* second case when the predicate holds and the first when it does not, for
\* an enumerated one the case named by the variant the accessor returns
CasesMeant(opcode, code) ==
    [k \in DOMAIN ModifierNames(opcode) |->
       LET name  == ModifierNames(opcode)[k]
           cases == get_modifier_cases(isa, opcode)[k]
       IN  IF IsBoolean(name)
           THEN cases[IF Holds(name, code) THEN 2 ELSE 1]
           ELSE CHOOSE c \in Range(cases) :
                  modifier_accessor(isa, name, code)
                    = [enum |-> name, variant |-> c.name]]

\* the ParsedIns of a tuple of cases
ParsedInsOfCases(opcode, cases, code) ==
    LET names == UnwrapOr(opcode.args, <<>>)
                 \o Concat([k \in DOMAIN cases |-> UnwrapOr(cases[k].args, <<>>)])
    IN  [mnemonic |-> opcode.base_name
                      \o Concat([k \in DOMAIN cases |->
                                   UnwrapOr(cases[k].suffix, <<>>)])
                      \o opcode.suffix,
         args |-> [k \in 1 .. gen.max_args |->
                     IF k <= Len(names)
                     THEN [variant |-> get_field(isa, names[k]).arg,
                           value |-> ins.code \cap get_field(isa, names[k]).bits]
                     ELSE ArgNone]]

\* no two case tuples of the opcode have the same guard tuple
GuardsDistinct(opcode) ==
    Cardinality(GuardTuples(opcode))
      = Len(cartesian(get_modifier_cases(isa, opcode)))

SomeBooleanOfPatternZero(opcode) ==
    \E k \in DOMAIN ModifierNames(opcode) :
       /\ IsBoolean(ModifierNames(opcode)[k])
       /\ get_modifier(isa, ModifierNames(opcode)[k]).pattern.v = {}

\* C25: in a generated parse function the case tuple selected is the one the
\* modifiers stand for on the code: for a boolean modifier the case of
\* "predicate holds" iff (code & mask) == pattern and the other case iff
\* not, also when the pattern is 0; for an enumerated modifier the case of
\* the variant its accessor returns; and no two case tuples of an opcode have
\* the same guard tuple.
C25_CaseSelection ==
    ( /\ Parsed
      /\ ins.op /= Illegal
      /\ ModifierNames(OpcodeOf) /= <<>> )
    => /\ GuardsDistinct(OpcodeOf)
       /\ AllVariantsLegal(OpcodeOf, ins.code)
            => out = ParsedInsOfCases(OpcodeOf,
                                      CasesMeant(OpcodeOf, ins.code), ins.code)

\* the same for the opcodes none of whose boolean modifiers has the pattern 0
C25_CaseSelectionPatternSet ==
    ( /\ Parsed
      /\ ins.op /= Illegal
      /\ ModifierNames(OpcodeOf) /= <<>>
      /\ ~SomeBooleanOfPatternZero(OpcodeOf) )
    => /\ GuardsDistinct(OpcodeOf)
       /\ AllVariantsLegal(OpcodeOf, ins.code)
            => out = ParsedInsOfCases(OpcodeOf,
                                      CasesMeant(OpcodeOf, ins.code), ins.code)

\* a boolean modifier of pattern 0 holds on the code of an opcode that has
\* a second modifier
C25_Witness ==
    /\ Parsed
    /\ ins.op /= Illegal
    /\ Len(ModifierNames(OpcodeOf)) = 2
    /\ ModifierNames(OpcodeOf)[1] = "z"
    /\ ModifierNames(OpcodeOf)[2] = "cond"
    /\ Holds("z", ins.code)
    /\ AllVariantsLegal(OpcodeOf, ins.code)

\* a boolean modifier of pattern 1 holds and its case is the one parsed
C25_WitnessPatternSet ==
    /\ Parsed
    /\ ins.op /= Illegal
    /\ ModifierNames(OpcodeOf) = <<"s", "cond">>
    /\ Holds("s", ins.code)
    /\ AllVariantsLegal(OpcodeOf, ins.code)
    /\ out.mnemonic = <<"b", "s", "e">>


(***************************************************************************)
(* Properties of the accessor of an enumerated modifier with own masks.    *)
(***************************************************************************)
ModeCases == isa.modifiers[1].cases.v

\* the positions of the declared cases whose (mask, pattern) match the code
MatchingCases(code) ==
    {k \in DOMAIN ModeCases :
       Matches(code, ModeCases[k].bitmask.v, ModeCases[k].pattern)}

\* C26: the accessor of an enumerated modifier with own masks returns the
\* first case, in order of decreasing popcount(mask), that matches the code:
\* a matching case no matching case has more mask bits than, and the earliest
\* declared among those; a case whose mask is a strict superset of another
\* matching case's mask is returned rather than that one; Illegal is returned
\* if and only if no case matches.
C26_OwnMaskCases ==
    (pc = "accessed") =>
       /\ (out = IllegalVariant(isa.modifiers[1])) <=> (MatchingCases(ins.code) = {})
       /\ (MatchingCases(ins.code) /= {}) =>
            \E k \in MatchingCases(ins.code) :
               /\ out = [enum |-> "mode", variant |-> ModeCases[k].name]
               /\ \A j \in MatchingCases(ins.code) :
                    /\ Cardinality(ModeCases[j].bitmask.v)
                         <= Cardinality(ModeCases[k].bitmask.v)
                    /\ (Cardinality(ModeCases[j].bitmask.v)
                          = Cardinality(ModeCases[k].bitmask.v)) => k <= j
                    /\ (ModeCases[k].bitmask.v \subseteq ModeCases[j].bitmask.v)
                         => (ModeCases[k].bitmask.v = ModeCases[j].bitmask.v)

\* two cases match, the one declared later has the strict superset of the
\* other's mask and is the one returned
C26_Witness ==
    /\ pc = "accessed"
    /\ \E j, k \in MatchingCases(ins.code) :
          /\ j < k
          /\ ModeCases[j].bitmask.v \subseteq ModeCases[k].bitmask.v
          /\ ModeCases[j].bitmask.v /= ModeCases[k].bitmask.v
          /\ out = [enum |-> "mode", variant |-> ModeCases[k].name]


(***************************************************************************)
(* Properties of the brackets of the rendered text.                        *)
(***************************************************************************)
\* the characters written so far
Characters == Concat(fmt.text)

\* the number of positions among the first n characters holding ch
Count(ch, n) == Cardinality({p \in 1 .. n : Characters[p] = ch})

\* the brackets open after the first n characters
OpenAfter(n) == Count("[", n) - Count("]", n)

\* a deref register is met while the bracket of an earlier one is open
OpensWhileOpen ==
    \E i, j \in DOMAIN Operands :
       /\ i < j
       /\ Opens(i)
       /\ Opens(j)
       /\ \A m \in (i + 1) .. j : ~PostIndexedOrCoOption(m)

\* C27: for every operand vector, vectors with more than one deref register
\* included, the rendered text has as many "]" as "[" and no "[" is written
\* while an earlier "[" is still open.
C27_BracketsBalanced ==
    /\ (pc \in {"loop", "displayed"}) =>
         \A n \in 0 .. Len(Characters) : OpenAfter(n) \in {0, 1}
    /\ Displayed => OpenAfter(Len(Characters)) = 0

\* the same for the operand vectors in which no deref register is met while
\* the bracket of an earlier one is open
C27_BracketsBalancedOneOpen ==
    ~OpensWhileOpen =>
       /\ (pc \in {"loop", "displayed"}) =>
            \A n \in 0 .. Len(Characters) : OpenAfter(n) \in {0, 1}
       /\ Displayed => OpenAfter(Len(Characters)) = 0

\* two deref registers, the bracket of the first closed by a post-indexed
\* offset before the second opens, both brackets closed
C27_Witness ==
    /\ Displayed
    /\ Len(Operands) = 3
    /\ Opens(1)
    /\ PostIndexedOrCoOption(2)
    /\ Opens(3)
    /\ Count("[", Len(Characters)) = 2
    /\ Count("]", Len(Characters)) = 2

\* two deref registers in a row
C27_WitnessNested ==
    /\ Displayed
    /\ Len(Operands) >= 2
    /\ Opens(1)
    /\ Opens(2)
    /\ Count("[", Len(Characters)) > Count("]", Len(Characters))


C28_WitnessList ==
    /\ pc = "shown"
    /\ out.variant = "RegList"
    /\ {0, 15, 16} \subseteq out.regs


(***************************************************************************)
(* Properties of the errors of generation.                                 *)
(***************************************************************************)
Ended == pc \in {"generated", "failed"}

\* the modifier is neither bitmask and pattern without cases nor cases
\* without a pattern
NoShape(modifier) ==
    ~ \/ modifier.bitmask.some /\ modifier.pattern.some /\ ~modifier.cases.some
      \/ modifier.cases.some /\ ~modifier.pattern.some

\* the cases without a mask of a modifier without a mask
CasesWithoutMask(modifier) ==
    IF modifier.cases.some /\ ~modifier.pattern.some /\ ~modifier.bitmask.some
    THEN { c \in Range(modifier.cases.v) : ~c.bitmask.some }
    ELSE {}

NestedMember(arg) == \E k \in DOMAIN arg.members : arg.members[k] \in {"Struct", "Enum"}

SignedAndBoolean(arg) == arg.signed /\ arg.boolean

Discontinuous(arg) ==
    /\ arg.values.some
    /\ \E a, b \in arg.values.v :
         \E v \in (a + 1) .. (b - 1) : v \notin arg.values.v

\* the entries of the catalogue with a structural error
Offending ==
    IF isa.generator = "accessors"
    THEN (IF NestedMember(isa.arg) THEN {isa.arg.name} ELSE {})
         \cup (IF NoShape(isa.modifier) THEN {isa.modifier.name} ELSE {})
         \cup { c.name : c \in CasesWithoutMask(isa.modifier) }
    ELSE IF SignedAndBoolean(isa.arg) \/ Discontinuous(isa.arg)
         THEN {isa.arg.name} ELSE {}

\* C29: for every catalogue with a structural error, generation ends in an
\* error whose message names an offending entry of the catalogue, and no
\* artefact is produced.
C29_StructuralErrors ==
    (Ended /\ Offending /= {}) =>
       /\ pc = "failed"
       /\ gen.error
       /\ gen.names \cap Offending /= {}
       /\ "tokens" \notin DOMAIN gen

\* the same besides the discontinuous values, for which generation ends in
\* an error and no artefact is produced
C29_StructuralErrorsNamedBesidesDiscontinuous ==
    (Ended /\ Offending /= {}) =>
       /\ pc = "failed"
       /\ gen.error
       /\ "tokens" \notin DOMAIN gen
       /\ (isa.generator = "enums" /\ Discontinuous(isa.arg)
           /\ ~SignedAndBoolean(isa.arg))
          \/ gen.names \cap Offending /= {}

\* a modifier with cases and no mask whose second case has no mask: the
\* error names the case
C29_Witness ==
    /\ pc = "failed"
    /\ isa.generator = "accessors"
    /\ ~NestedMember(isa.arg)
    /\ isa.modifier.cases.some
    /\ Len(isa.modifier.cases.v) = 2
    /\ isa.modifier.cases.v[1].bitmask.some
    /\ ~isa.modifier.cases.v[2].bitmask.some
    /\ "2" \in gen.names

\* an argument with the values 0 and 2: the error names nothing
C29_WitnessDiscontinuous ==
    /\ pc = "failed"
    /\ isa.generator = "enums"
    /\ isa.arg.values = Some({0, 2})
    /\ gen.names = {}


(***************************************************************************)
(* Properties of the opcode enum and its mnemonics.                        *)
(***************************************************************************)
\* the discriminants of the catalogue opcodes: the one at index i is i,
\* lies in [0, N) and is not that of Illegal
DiscriminantsPacked ==
    \A k \in DOMAIN isa.opcodes :
       /\ gen.enum[k] = k - 1
       /\ gen.enum[k] \in 0 .. (count(gen) - 1)
       /\ gen.enum[k] /= Illegal

\* C30: Opcode::mnemonic returns a mnemonic for every tag, Illegal (0xFF)
\* included, without failure; the i-th opcode of the catalogue has the
\* discriminant i in [0, N), N = Opcode::count(), other than 0xFF, and
\* mnemonic returns the name of that opcode.
C30_MnemonicTotal ==
    /\ pc /= "panicked"
    /\ (pc \in {"generated", "named", "counted"}) =>
         /\ count(gen) = Len(isa.opcodes)
         /\ DiscriminantsPacked
    /\ (pc = "counted") => out = Len(isa.opcodes)
    /\ (pc = "named" /\ ins.op /= Illegal) =>
         out = OpcodeName(isa.opcodes[ins.op + 1])

\* the same for the tags of the catalogue opcodes of the catalogues of up
\* to 255 opcodes; mnemonic fails for no other tag than Illegal
C30_MnemonicOfCatalogueTags ==
    (Len(isa.opcodes) <= 255) =>
       /\ (pc = "panicked") => ins.op = Illegal
       /\ (pc \in {"generated", "named", "counted"}) =>
            /\ count(gen) = Len(isa.opcodes)
            /\ DiscriminantsPacked
       /\ (pc = "counted") => out = Len(isa.opcodes)
       /\ (pc = "named") =>
            /\ ins.op /= Illegal
            /\ out = OpcodeName(isa.opcodes[ins.op + 1])

\* the mnemonic of the last opcode of a catalogue of several opcodes
C30_Witness ==
    /\ pc = "named"
    /\ Len(isa.opcodes) >= 3
    /\ ins.op = Len(isa.opcodes) - 1
    /\ out = <<"o">> \o Decimal(ins.op)

\* the mnemonic of Illegal fails
C30_WitnessIllegal ==
    /\ pc = "panicked"
    /\ ins.op = Illegal
    /\ Len(isa.opcodes) = 3


====
